---- MODULE Spec2Model ----
(***************************************************************************)
(* A model of dossier's synchronisation engine (src/src/cli.rs), its store *)
(* handlers (src/src/api.rs) and its conditional file server               *)
(* (src/src/webserver.rs).                                                 *)
(*                                                                         *)
(* Paths and header values are sequences of one-character strings, so that *)
(* starts_with, ends_with, split and format! are computed as the code      *)
(* computes them.  An Option is a sequence of length at most one.          *)
(*                                                                         *)
(* The module holds several specifications over one set of variables:      *)
(*   SpecUpload  one upload_file call, chunk write by chunk write          *)
(*   Spec        sync_directory: scanner pool, planner, executor pool      *)
(*   SpecWeb     get_page_with_error_handling, one request at a time       *)
(* A specification leaves the variables of the others at their initial     *)
(* values.                                                                 *)
(***************************************************************************)
EXTENDS Integers, Sequences, FiniteSets, Bags, TLC

VARIABLES
    \* the Content Store: path -> entry of the files collection
    store,
    \* ---- upload_file (cli.rs:201-266)
    upload_pc,        \* "idle", "open", "read", "write", "verify", "done", "failed"
    location_bytes,   \* the bytes of the local file at `location`, now
    scanned_bytes,    \* the bytes the file held when the caller hashed it
    local_phase,      \* "scanned", "changed", "restored": edits of the local file
    verify_hash_arg,  \* the verify_hash parameter: Option<[u8; 32]>
    remote_path_arg,  \* the remote_path parameter
    verify_hash,      \* VerificationHash of the attempt
    reader_pos,       \* offset of `reader` in the local file
    scratch,          \* scratch[..current_len]
    bytes_read,
    is_first_write,
    file_hash,        \* Option<Bytes> of the last write_file_data
    writes,           \* history: the write_file_data calls of this attempt that returned Ok
    previous_sent,    \* history: the bytes the attempt before this one transferred
    retried,          \* history: an attempt failed to verify
    torn,             \* history: the local file was edited during this attempt
    \* ---- sync_directory (cli.rs:297-373) and its workers
    sync_pc,          \* "idle", "start", "drain", "deletes", "spawn", "results", "ok", "err"
    run,              \* "first" or "second" run over the same directory
    tree,             \* the local directory tree: directory -> its entries
    existing_files,   \* HashMap<String, Bytes>
    directories,      \* Arc<Mutex<Vec<(PathBuf, String)>>>
    hashers,          \* the hash_directories tasks
    hash_channel,     \* flume channel of anyhow::Result<FileHash>
    hash_receiver,    \* TRUE while hash_receiver is alive
    operations,       \* flume channel of SyncOperation
    total_operations,
    executors,        \* the perform_sync_operations tasks
    results,          \* flume channel of anyhow::Result<String>
    result_receiver,  \* TRUE while result_receiver is alive
    completed_operations,
    remote_index,     \* history: what list_files returned
    store_at_start,   \* history: the store when the run started
    planned,          \* history: bag of the operations sent on operation_sender
    applied,          \* history: bag of the operations perform_sync_operation was given
    listed,           \* history: bag of the directories read_dir listed
    hashed,           \* history: bag of the FileHash sent on the hash channel
    scan_errors,      \* history: the remote paths whose scan reported an error
    previous_total,   \* history: total_operations of the first run
    \* ---- the web server (webserver.rs)
    web_pc,           \* "idle", "received", "responded"
    request,          \* the Request<Body> get_page_with_error_handling is given
    response,         \* the Response<Body> it returns
    store_calls,      \* history: the store calls get_page made for the request
    \* ---- write_file_data and delete_file called on their own (api.rs)
    last_call,        \* history: the last call, the entry before it and its result
    \* ---- the lock of the pending directories (cli.rs:318, 410, 445)
    lock_holder,      \* the task that holds the MutexGuard of `directories`, or NoHolder
    pushing,          \* task -> the directory entry it is about to push, or NoEntry
    \* ---- backup (cli.rs:564-646)
    backup_pc,        \* "idle", "list", "send", "join", "write", "ok", "err"
    files,            \* the files still to be sent by the loop of cli.rs:623
    backup_channel,   \* flume::bounded(number_of_tasks): the files in flight
    tasks,            \* the spawned tasks: "recv", "file", "ok" or "err"
    awaited,          \* the number of tasks the loop of cli.rs:629 has awaited
    \* ---- the handlers of the networked requests (api.rs:80-173, 218-242)
    handler_pc,       \* "idle", "request", "done"
    api_request,      \* the ListFiles, DeleteFile or WriteFileData request
    projects,         \* the projects collection: slug -> id
    granted,          \* the resources the session is allowed SyncFiles on
    api_response,     \* the HandlerResult: "" is Ok
    handler_calls,    \* history: how often the handler closure was invoked
    store_before      \* history: the store when the request arrived

uvars == <<upload_pc, location_bytes, scanned_bytes, local_phase, verify_hash_arg,
           remote_path_arg, verify_hash, reader_pos, scratch, bytes_read,
           is_first_write, file_hash, writes, previous_sent, retried, torn>>
svars == <<sync_pc, run, tree, existing_files, directories, hashers, hash_channel,
           hash_receiver, operations, total_operations, executors, results,
           result_receiver, completed_operations, remote_index, store_at_start,
           planned, applied, listed, hashed, scan_errors, previous_total>>
wvars == <<web_pc, request, response, store_calls>>
avars == <<last_call>>
lvars == <<lock_holder, pushing>>
bvars == <<backup_pc, files, backup_channel, tasks, awaited>>
pvars == <<handler_pc, api_request, projects, granted, api_response, handler_calls,
           store_before>>
vars == <<store, uvars, svars, wvars, avars, lvars, bvars, pvars>>

\* ------------------------------------------------------------------ bounds
\* Tasks per pool: available_parallelism() * 2 in cli.rs:324 and cli.rs:354.
NumWorkers == 2
\* Length of upload_file's scratch buffer: 1_048_576 in cli.rs:226, scaled.
ScratchLen == 2
\* Longest local file of the upload specification, in bytes.
MaxFileLen == 3

\* ----------------------------------------------------------------- helpers
None == <<>>
Some(x) == <<x>>
Min(a, b) == IF a < b THEN a ELSE b
Max(a, b) == IF a < b THEN b ELSE a
Range(s) == {s[i] : i \in DOMAIN s}
Last(s) == s[Len(s)]

\* The bytes a file may hold.
Byte == {1, 2}
BytesUpTo(n) == UNION {[1..k -> Byte] : k \in 0..n}

\* The bag of the elements of a sequence.
RECURSIVE SeqToBag(_)
SeqToBag(q) == IF q = <<>> THEN EmptyBag ELSE SetToBag({Head(q)}) (+) SeqToBag(Tail(q))

\* str.starts_with(ch) / str.ends_with(ch)
StartsWith(str, ch) == Len(str) > 0 /\ Head(str) = ch
EndsWith(str, ch) == Len(str) > 0 /\ Last(str) = ch

\* ------------------------------------------------------------------ Hasher
\* blake3::Hasher, taken as collision free (spec, section 3): the state is
\* the byte string read so far as a numeral with the digits 1..|Byte|, which
\* no two byte strings share; a digest is that number as two bytes.
HasherNew == 0
RECURSIVE HasherUpdate(_, _)
HasherUpdate(hasher, bytes) ==
    IF bytes = <<>> THEN hasher
    ELSE HasherUpdate(hasher * (Cardinality(Byte) + 1) + Head(bytes), Tail(bytes))
HasherFinalize(hasher) == <<(hasher \div 256) % 256, hasher % 256>>
Hash(bytes) == HasherFinalize(HasherUpdate(HasherNew, bytes))

\* VerificationHash::new / update / finish
VerificationHashNew(expected) ==
    IF expected # None
    THEN [kind |-> "Static", value |-> expected[1], hasher |-> HasherNew]
    ELSE [kind |-> "Computing", value |-> <<>>, hasher |-> HasherNew]
VerificationHashUpdate(vh, bytes) ==
    IF vh.kind = "Computing"
    THEN [vh EXCEPT !.hasher = HasherUpdate(vh.hasher, bytes)]
    ELSE vh
VerificationHashFinish(vh) ==
    IF vh.kind = "Static" THEN vh.value ELSE HasherFinalize(vh.hasher)

\* ----------------------------------------------------------- Content Store
\* One entry of the files collection: whether a file exists at the path, its
\* contents and its Option<Metadata> (the blake3 digest).
NoFile == [exists |-> FALSE, contents |-> <<>>, metadata |-> None]
StoredFile(contents, metadata) ==
    [exists |-> TRUE, contents |-> contents, metadata |-> metadata]

TruncateNothing(file) == file
\* file.truncate(0, Truncate::RemovingStart): the blocks go, the metadata stays.
Truncate(file) == [file EXCEPT !.contents = <<>>]
\* DossierFiles::build(path).create_async: an empty file without metadata.
CreateFile == StoredFile(<<>>, None)
AppendNothing(file, data) == file
\* file.append(data)
AppendData(file, data) == [file EXCEPT !.contents = @ \o data]
\* file.update_metadata(Metadata { blake3 })
UpdateMetadataNothing(file, blake3) == file
UpdateMetadata(file, blake3) == [file EXCEPT !.metadata = Some(blake3)]

\* The store calls of write_file_data, in order; a fault names the first call
\* that returns an error ("none": every call succeeds).
WriteFaults == {"none", "load", "open", "append", "finalize"}

\* api::write_file_data(path, data, start, finished, database) on the entry
\* `file` of the path: the entry afterwards, the error ("" when Ok) and the
\* Option<Bytes> returned.
WriteFileData(file, data, start, finished, fault) ==
    IF fault = "load"
    THEN [file |-> file, err |-> "Store", hash |-> None]
    ELSE IF ~file.exists /\ ~start
    THEN [file |-> file, err |-> "Deleted", hash |-> None]
    ELSE IF fault = "open"
    THEN [file |-> file, err |-> "Store", hash |-> None]
    ELSE LET opened == IF file.exists THEN (IF start THEN Truncate(file) ELSE file)
                       ELSE CreateFile
             appended == AppendData(opened, data)
             hash == Hash(appended.contents)
         IN  IF fault = "append"
             THEN [file |-> opened, err |-> "Store", hash |-> None]
             ELSE IF ~finished
             THEN [file |-> appended, err |-> "", hash |-> None]
             ELSE IF fault = "finalize"
             THEN [file |-> appended, err |-> "Store", hash |-> None]
             ELSE [file |-> UpdateMetadata(appended, hash), err |-> "",
                   hash |-> Some(hash)]

\* ------------------------------------------------------------ upload_file
Project == <<"p">>
FileName == <<"a">>
\* The file upload_file is given is named "a"; these are its remote_path
\* arguments: relative, absolute, and a directory to put the file in.
RemotePathArgs == {<<"a">>, <<"/", "a">>, <<"/", "d", "/">>}

\* cli.rs:208-220: the path the file is written to.
UploadTarget(remote_path, project, file_name) ==
    LET prefixed == IF ~StartsWith(remote_path, "/")
                    THEN <<"/">> \o project \o <<"/">> \o remote_path
                    ELSE <<"/">> \o project \o remote_path
    IN  IF EndsWith(prefixed, "/") THEN prefixed \o file_name ELSE prefixed

UploadPaths == {UploadTarget(r, Project, FileName) : r \in RemotePathArgs}
Target == UploadTarget(remote_path_arg, Project, FileName)

RECURSIVE Flatten(_)
Flatten(ws) == IF ws = <<>> THEN <<>> ELSE Head(ws).data \o Flatten(Tail(ws))
\* The bytes transferred so far in this attempt.
Sent == Flatten(writes)

ShouldWriteAtEndOnly(n, current_len) == n = 0
ShouldWriteAlways(n, current_len) == TRUE
ShouldWriteEarly(n, current_len) == n = 0 \/ current_len >= ScratchLen - 1
\* cli.rs:233: the condition under which the scratch buffer is written out.
ShouldWrite(n, current_len) == n = 0 \/ current_len = ScratchLen
VerifiedAlways(server_hash, local_hash) == TRUE
VerifiedNever(server_hash, local_hash) == FALSE
\* cli.rs:257: the comparison that ends the retry loop.
Verified(server_hash, local_hash) == server_hash = Some(local_hash)

\* What an interrupted or finished earlier upload may have left at a path.
EntriesBefore ==
    { NoFile,
      StoredFile(<<2>>, Some(Hash(<<2>>))),      \* a finished upload
      StoredFile(<<1, 1>>, None),                \* a Create stopped after a chunk
      StoredFile(<<>>, Some(Hash(<<1, 2>>))) }   \* a Replace stopped after truncate

\* No request and no response.
NoRequest == [method |-> "", path |-> <<>>, if_none_match |-> None]
NoResponse ==
    [status |-> 0, upgraded |-> FALSE, body |-> <<>>, text |-> "",
     content_type |-> None, etag |-> None, location |-> None, allow |-> None,
     content_length |-> None]
\* The web server has no request at hand.
WebIdle ==
    /\ web_pc = "idle" /\ request = NoRequest /\ response = NoResponse
    /\ store_calls = <<>>
\* Neither write_file_data nor delete_file was called on its own.
NoCall ==
    [api |-> "", before |-> [exists |-> FALSE, contents |-> <<>>, metadata |-> None],
     data |-> <<>>, start |-> FALSE, finished |-> FALSE, fault |-> "",
     err |-> "", hash |-> None]
ApiIdle == last_call = NoCall
\* Nobody holds the lock of the pending directories.
NoHolder == 0
NoEntry == [name |-> <<>>, is_dir |-> FALSE, utf8 |-> FALSE, bytes |-> <<>>]
LockIdle == lock_holder = NoHolder /\ pushing = [w \in 1..NumWorkers |-> NoEntry]
\* No networked request has arrived.
NoApiRequest == [api |-> "", path |-> <<>>, data |-> <<>>, start |-> FALSE, finished |-> FALSE]
HandlerIdle ==
    /\ handler_pc = "idle" /\ api_request = NoApiRequest /\ projects = <<>>
    /\ granted = {} /\ api_response = "" /\ handler_calls = 0 /\ store_before = <<>>
\* backup has not been called.
BackupIdle ==
    /\ backup_pc = "idle" /\ files = <<>> /\ backup_channel = <<>> /\ tasks = <<>>
    /\ awaited = 0

\* sync_directory has not been called.
SyncIdle ==
    /\ sync_pc = "idle" /\ run = "first" /\ tree = <<>> /\ existing_files = <<>>
    /\ directories = <<>> /\ hashers = <<>> /\ hash_channel = <<>>
    /\ hash_receiver = FALSE /\ operations = <<>> /\ total_operations = 0
    /\ executors = <<>> /\ results = <<>> /\ result_receiver = FALSE
    /\ completed_operations = 0 /\ remote_index = <<>> /\ store_at_start = <<>>
    /\ planned = EmptyBag /\ applied = EmptyBag /\ listed = EmptyBag /\ hashed = EmptyBag
    /\ scan_errors = {} /\ previous_total = 0

\* upload_file has not been called.
UploadIdle ==
    /\ upload_pc = "idle" /\ location_bytes = <<>> /\ scanned_bytes = <<>>
    /\ local_phase = "scanned" /\ verify_hash_arg = None /\ remote_path_arg = <<>>
    /\ verify_hash = VerificationHashNew(None) /\ reader_pos = 0 /\ scratch = <<>>
    /\ bytes_read = 0 /\ is_first_write = TRUE /\ file_hash = None
    /\ writes = <<>> /\ previous_sent = <<>> /\ retried = FALSE /\ torn = FALSE

InitUpload ==
    /\ scanned_bytes \in BytesUpTo(MaxFileLen)
    /\ location_bytes = scanned_bytes
    /\ local_phase = "scanned"
    /\ verify_hash_arg \in {None, Some(Hash(scanned_bytes))}
    /\ remote_path_arg \in RemotePathArgs
    /\ \E before \in EntriesBefore :
          store = [p \in UploadPaths |->
                     IF p = UploadTarget(remote_path_arg, Project, FileName)
                     THEN before ELSE NoFile]
    /\ upload_pc = "open"
    /\ verify_hash = VerificationHashNew(None) /\ reader_pos = 0 /\ scratch = <<>>
    /\ bytes_read = 0 /\ is_first_write = TRUE /\ file_hash = None
    /\ writes = <<>> /\ previous_sent = <<>> /\ retried = FALSE /\ torn = FALSE
    /\ SyncIdle /\ WebIdle /\ ApiIdle /\ LockIdle /\ BackupIdle /\ HandlerIdle

\* cli.rs:223-229: the top of the retry loop.
UploadOpen ==
    /\ UNCHANGED <<svars, wvars, avars, lvars, bvars, pvars>>
    /\ upload_pc = "open"
    /\ \E opened \in BOOLEAN :
          IF opened
          THEN /\ upload_pc' = "read"
               /\ verify_hash' = VerificationHashNew(verify_hash_arg)
               /\ reader_pos' = 0 /\ scratch' = <<>> /\ bytes_read' = 0
               /\ is_first_write' = TRUE /\ file_hash' = None
               /\ previous_sent' = Sent /\ writes' = <<>> /\ torn' = FALSE
          ELSE /\ upload_pc' = "failed"
               /\ UNCHANGED <<verify_hash, reader_pos, scratch, bytes_read,
                              is_first_write, file_hash, previous_sent, writes, torn>>
    /\ UNCHANGED <<store, location_bytes, scanned_bytes, local_phase,
                   verify_hash_arg, remote_path_arg, retried>>

\* cli.rs:231-232: reader.read(&mut scratch[current_len..]) returns between
\* one byte and what fits, or zero at the end of the file or for a buffer with
\* no room, or an error.
UploadRead ==
    /\ UNCHANGED <<svars, wvars, avars, lvars, bvars, pvars>>
    /\ upload_pc = "read"
    /\ LET remaining == Max(0, Len(location_bytes) - reader_pos)
           space == ScratchLen - Len(scratch)
       IN  \/ \E n \in (IF remaining = 0 \/ space = 0 THEN {0}
                       ELSE 1..Min(space, remaining)) :
                /\ bytes_read' = n
                /\ scratch' = scratch \o SubSeq(location_bytes, reader_pos + 1, reader_pos + n)
                /\ reader_pos' = reader_pos + n
                /\ upload_pc' = IF ShouldWrite(n, Len(scratch) + n) THEN "write" ELSE "read"
           \/ /\ upload_pc' = "failed"
              /\ UNCHANGED <<bytes_read, scratch, reader_pos>>
    /\ UNCHANGED <<store, location_bytes, scanned_bytes, local_phase, verify_hash_arg,
                   remote_path_arg, verify_hash, is_first_write, file_hash, writes,
                   previous_sent, retried, torn>>

\* cli.rs:233-249: one write_file_data call with the scratch buffer.
UploadWrite ==
    /\ UNCHANGED <<svars, wvars, avars, lvars, bvars, pvars>>
    /\ upload_pc = "write"
    /\ \E fault \in WriteFaults :
          LET r == WriteFileData(store[Target], scratch, is_first_write,
                                 bytes_read = 0, fault)
          IN  /\ store' = [store EXCEPT ![Target] = r.file]
              /\ IF r.err # ""
                 THEN /\ upload_pc' = "failed"
                      /\ UNCHANGED <<file_hash, verify_hash, is_first_write, scratch, writes>>
                 ELSE /\ file_hash' = r.hash
                      /\ verify_hash' = VerificationHashUpdate(verify_hash, scratch)
                      /\ is_first_write' = FALSE
                      /\ scratch' = <<>>
                      /\ writes' = Append(writes, [start |-> is_first_write,
                                                   finished |-> bytes_read = 0,
                                                   data |-> scratch])
                      /\ upload_pc' = IF bytes_read = 0 THEN "verify" ELSE "read"
    /\ UNCHANGED <<location_bytes, scanned_bytes, local_phase, verify_hash_arg,
                   remote_path_arg, reader_pos, bytes_read, previous_sent, retried, torn>>

\* cli.rs:252-262: the write for a file_hash still None, then the comparison of
\* the store's digest with the verification digest.
UploadVerify ==
    /\ UNCHANGED <<svars, wvars, avars, lvars, bvars, pvars>>
    /\ upload_pc = "verify"
    /\ LET r == IF file_hash = None
                THEN WriteFileData(store[Target], <<>>, is_first_write, TRUE, "none")
                ELSE [file |-> store[Target], err |-> "", hash |-> file_hash]
       IN  /\ store' = [store EXCEPT ![Target] = r.file]
           /\ file_hash' = r.hash
           /\ IF r.err # ""
              THEN upload_pc' = "failed" /\ UNCHANGED retried
              ELSE IF Verified(r.hash, VerificationHashFinish(verify_hash))
              THEN upload_pc' = "done" /\ UNCHANGED retried
              ELSE upload_pc' = "open" /\ retried' = TRUE
    /\ UNCHANGED <<location_bytes, scanned_bytes, local_phase, verify_hash_arg,
                   remote_path_arg, verify_hash, reader_pos, scratch, bytes_read,
                   is_first_write, writes, previous_sent, torn>>

\* Another program edits the local file: once after the caller hashed it, and
\* once more back to what it was.
LocalEdit ==
    /\ UNCHANGED <<svars, wvars, avars, lvars, bvars, pvars>>
    /\ upload_pc \in {"open", "read", "write", "verify"}
    /\ \/ /\ local_phase = "scanned"
          /\ local_phase' = "changed"
          /\ location_bytes' \in BytesUpTo(MaxFileLen) \ {location_bytes}
       \/ /\ local_phase = "changed"
          /\ local_phase' = "restored"
          /\ location_bytes' = scanned_bytes
    /\ torn' = (upload_pc # "open")
    /\ UNCHANGED <<store, upload_pc, scanned_bytes, verify_hash_arg, remote_path_arg,
                   verify_hash, reader_pos, scratch, bytes_read, is_first_write,
                   file_hash, writes, previous_sent, retried>>

NextUpload == UploadOpen \/ UploadRead \/ UploadWrite \/ UploadVerify \/ LocalEdit

SpecUpload == InitUpload /\ [][NextUpload]_vars

\* ------------------------------------------------- claims on upload_file
\* C1: upload_file returns Ok only when the digest the store returned for
\* the final write equals the verification digest, and then the digest the
\* store records for the path is the digest of exactly the bytes the final
\* attempt transferred.
C1_OkOnlyAfterVerifiedDigest ==
    upload_pc = "done" =>
        /\ file_hash = Some(VerificationHashFinish(verify_hash))
        /\ store[Target].exists
        /\ store[Target].metadata = file_hash
        /\ store[Target].metadata = Some(Hash(Sent))
\* An upload that succeeded against a caller-supplied digest after an attempt
\* that did not verify.
C1_Witness ==
    upload_pc = "done" /\ retried /\ verify_hash.kind = "Static"

\* C6: after upload_file returned Ok the path holds exactly the bytes
\* transferred, its recorded digest is their hash, and they are the bytes of
\* the local file unless it was edited while being read.
C6_RoundTrip ==
    upload_pc = "done" =>
        /\ store[Target].exists
        /\ store[Target].contents = Sent
        /\ store[Target].metadata = Some(Hash(Sent))
        /\ (~torn => store[Target].contents = location_bytes)
\* A file of exactly one scratch buffer, uploaded.
C6_Witness ==
    /\ upload_pc = "done" /\ ~torn
    /\ Len(location_bytes) = ScratchLen
    /\ store[Target].contents = location_bytes

\* C7: every attempt reads from offset zero and its first write carries
\* start; once an attempt has failed to verify, the stored bytes are those of
\* the attempt under way alone, and after success those of the last attempt,
\* not the earlier attempt's followed by them.
C7_RetryFromZero ==
    /\ reader_pos = Len(Sent) + Len(scratch)
    /\ (writes # <<>> =>
            /\ writes[1].start
            /\ \A i \in 2..Len(writes) : ~writes[i].start)
    /\ (retried /\ writes # <<>> /\ upload_pc # "failed" =>
            store[Target].contents = Sent)
    /\ (upload_pc = "done" /\ retried /\ previous_sent # <<>> =>
            store[Target].contents # previous_sent \o Sent)
\* Success after an attempt that transferred bytes and did not verify.
C7_Witness ==
    upload_pc = "done" /\ retried /\ previous_sent # <<>> /\ Sent # <<>>

\* ---------------------------------------------------------- sync_directory
\* The `location` and remote_path arguments of the run.
Location == <<"w">>
RemotePathArg == <<"s">>

\* cli.rs:309-315: the remote prefix with a leading and a trailing '/'.
SyncPrefix(remote_path) ==
    LET lead == IF ~StartsWith(remote_path, "/") THEN <<"/">> \o remote_path
                ELSE remote_path
    IN  IF ~EndsWith(lead, "/") THEN lead \o <<"/">> ELSE lead

\* format!("/{project}{remote_path}") of cli.rs:317 and cli.rs:334.
StoreKey(project, remote_path) == <<"/">> \o project \o remote_path

\* entry.path()
JoinPath(directory, name) == directory \o <<"/">> \o name
\* location.file_name(): what follows the last '/'.
RECURSIVE LastSegment(_)
LastSegment(path) ==
    IF \A i \in DOMAIN path : path[i] # "/" THEN path
    ELSE LastSegment(Tail(path))
IsPrefix(pre, str) == Len(pre) <= Len(str) /\ SubSeq(str, 1, Len(pre)) = pre

\* A directory entry: entry.file_name(), whether into_string() succeeds on it,
\* entry.file_type().is_dir(), and a file's bytes.
DirEntry(name) == [name |-> name, utf8 |-> TRUE, is_dir |-> TRUE, bytes |-> <<>>]
FileEntry(name, bytes) == [name |-> name, utf8 |-> TRUE, is_dir |-> FALSE, bytes |-> bytes]
OddNameEntry(name, bytes) == [name |-> name, utf8 |-> FALSE, is_dir |-> FALSE, bytes |-> bytes]
OddNameDirEntry(name) == [name |-> name, utf8 |-> FALSE, is_dir |-> TRUE, bytes |-> <<>>]

\* The local trees of the model: w/ holds the directories d and e and maybe a
\* file a; w/d holds maybe a file b; w/e holds a file and a directory whose
\* names are not UTF-8, the directory holding a file c.
\* The empty tree stands for a `location` that is no directory.
LocalBytes == {<<2>>, <<1, 2, 1>>}
OptionalFile(name, content) ==
    IF content = None THEN {} ELSE {FileEntry(name, content[1])}
TreeOf(a, b) ==
    (Location :> ({DirEntry(<<"d">>), DirEntry(<<"e">>)} \cup OptionalFile(<<"a">>, a)))
    @@ (JoinPath(Location, <<"d">>) :> OptionalFile(<<"b">>, b))
    @@ (JoinPath(Location, <<"e">>) :>
            {OddNameEntry(<<"?">>, <<1>>), OddNameDirEntry(<<"!">>)})
    @@ (JoinPath(JoinPath(Location, <<"e">>), <<"!">>) :> {FileEntry(<<"c">>, <<1>>)})
OptionalBytes == {None} \cup {Some(c) : c \in LocalBytes}
Trees == {TreeOf(a, b) : a, b \in OptionalBytes} \cup {<<>>}

\* The store paths of a run: the two the tree can hold under the prefix, and
\* one of the same project outside the prefix.
PathA == <<"/", "p", "/", "s", "/", "a">>
PathB == <<"/", "p", "/", "s", "/", "d", "/", "b">>
PathOutside == <<"/", "p", "/", "o">>
SyncPaths == {PathA, PathB, PathOutside}

\* Every file of a tree, as read through the file system.
LocalFiles(t) ==
    UNION {{[path |-> JoinPath(d, e.name), bytes |-> e.bytes] :
               e \in {x \in t[d] : ~x.is_dir}} : d \in DOMAIN t}
\* fs::File::open(&location) and reading to the end.
ReadLocal(t, path) == (CHOOSE f \in LocalFiles(t) : f.path = path).bytes

\* DossierFiles::list_recursive_async(base_path, database)
ListRecursive(base_path, st) ==
    {p \in DOMAIN st : st[p].exists /\ IsPrefix(base_path, p)}
ListFilesNone(base_path, st) == <<>>
\* api::list_files: the files under base_path that carry metadata, with their digest.
ListFiles(base_path, st) ==
    [p \in {q \in ListRecursive(base_path, st) : st[q].metadata # None} |->
        st[p].metadata[1]]

RemoveKeyNothing(map, key) == map
\* HashMap::remove
RemoveKey(map, key) == [p \in DOMAIN map \ {key} |-> map[p]]
DigestsDifferNever(existing_hash, blake3) == FALSE
\* cli.rs:336: existing_hash.as_slice() != file_hash.blake3
DigestsDiffer(existing_hash, blake3) == existing_hash # blake3

PushNothing(stack, item) == stack
\* Vec::push / Vec::pop on the pending directories
Push(stack, item) == Append(stack, item)
Pop(stack) == SubSeq(stack, 1, Len(stack) - 1)
DequeueNothing(queue) == queue
\* flume::Receiver::recv_async: the message leaves the channel
Dequeue(queue) == Tail(queue)

IsErrNever(result) == FALSE
\* cli.rs:332: `result?`
IsErr(result) == result.kind = "err"

\* The orders a HashMap may be iterated in.
Orders(S) == {q \in [1..Cardinality(S) -> S] : Range(q) = S}

\* SyncOperation
CreateOp(fh) == [kind |-> "Create", path |-> fh.path,
                 remote_path |-> fh.remote_path, blake3 |-> fh.blake3]
ReplaceOp(fh) == [kind |-> "Replace", path |-> fh.path,
                  remote_path |-> fh.remote_path, blake3 |-> fh.blake3]
DeleteOp(file) == [kind |-> "Delete", path |-> <<>>, remote_path |-> file, blake3 |-> <<>>]

\* The write_file_data calls of one attempt of upload_file on a file of
\* `bytes` (cli.rs:230-250): a full scratch buffer at a time, then what is
\* left, which may be nothing, with finished set.
RECURSIVE ChunkWrites(_, _)
ChunkWrites(bytes, first) ==
    IF Len(bytes) >= ScratchLen
    THEN <<[start |-> first, finished |-> FALSE, data |-> SubSeq(bytes, 1, ScratchLen)]>>
         \o ChunkWrites(SubSeq(bytes, ScratchLen + 1, Len(bytes)), FALSE)
    ELSE <<[start |-> first, finished |-> TRUE, data |-> bytes]>>

\* The calls ws[i..] applied to an entry, the k-th failing with `fault`.
RECURSIVE RunWrites(_, _, _, _, _)
RunWrites(file, ws, i, k, fault) ==
    LET r == WriteFileData(file, ws[i].data, ws[i].start, ws[i].finished,
                           IF i = k THEN fault ELSE "none")
    IN  IF r.err # "" \/ i = Len(ws) THEN r
        ELSE RunWrites(r.file, ws, i + 1, k, fault)

\* upload_file(location, remote_path, project, database, verify_hash) run to
\* its return, on the entry of its target: the entry afterwards and whether it
\* returned Ok.  A read error leaves the entry as a failing load of the next
\* write does; an attempt that does not verify is repeated (cli.rs:259-261),
\* and with the local file unchanged never returns.
UploadFile(file, bytes, expected) ==
    LET ws == ChunkWrites(bytes, TRUE)
        attempts == {RunWrites(file, ws, 1, k, f) : k \in 1..Len(ws), f \in WriteFaults}
    IN  {[file |-> r.file, ok |-> TRUE] :
            r \in {x \in attempts : x.err = "" /\ Verified(x.hash, expected[1])}}
        \cup {[file |-> r.file, ok |-> FALSE] : r \in {x \in attempts : x.err # ""}}
        \cup {[file |-> file, ok |-> FALSE]}

\* cli.rs:257-261: the attempts of upload_file in which every call returned Ok
\* and the digest of the store differs from the expected one: the loop goes
\* back to its top.
UploadRetries(file, bytes, expected) ==
    LET ws == ChunkWrites(bytes, TRUE)
    IN  {x \in {RunWrites(file, ws, 1, k, f) : k \in 1..Len(ws), f \in WriteFaults} :
            x.err = "" /\ ~Verified(x.hash, expected[1])}

\* api::delete_file on the entry of its path
DeleteFile(file) == {[file |-> NoFile, ok |-> TRUE], [file |-> file, ok |-> FALSE]}

\* perform_sync_operation (cli.rs:489-524): the path it acts on, and the
\* entries it may leave there with its result.
OperationPath(op) ==
    IF op.kind = "Delete" THEN op.remote_path
    ELSE UploadTarget(op.remote_path, Project, LastSegment(op.path))
PerformSyncOperation(op, st, t) ==
    IF op.kind = "Delete" THEN DeleteFile(st[OperationPath(op)])
    ELSE UploadFile(st[OperationPath(op)], ReadLocal(t, op.path), Some(op.blake3))

Workers == 1..NumWorkers
IdleTask == [pc |-> "unspawned", directory |-> <<>>, remote_path |-> <<>>, contents |-> {}]
NoOp == [kind |-> "None", path |-> <<>>, remote_path |-> <<>>, blake3 |-> <<>>]
IdleExecutor == [pc |-> "unspawned", op |-> NoOp]
OkHash(path, remote_path, blake3) ==
    [kind |-> "ok", path |-> path, remote_path |-> remote_path, blake3 |-> blake3]
ErrHashAsRecord(remote_path) ==
    [kind |-> "ok", path |-> <<>>, remote_path |-> remote_path, blake3 |-> <<>>]
ErrHash(remote_path) ==
    [kind |-> "err", path |-> <<>>, remote_path |-> remote_path, blake3 |-> <<>>]
SendNothing(channel, receiver_alive, message) == channel
SendAlways(channel, receiver_alive, message) == Append(channel, message)
\* flume::Sender::send: the message is queued while a receiver is alive.
Send(channel, receiver_alive, message) ==
    IF receiver_alive THEN Append(channel, message) ELSE channel

RecvDisconnectedEarly(channel, senders_gone) == channel = <<>>
RecvDisconnectedNever(channel, senders_gone) == FALSE
\* flume::Receiver::recv_async returns Err(Disconnected): the channel is empty
\* and every sender was dropped.
RecvDisconnected(channel, senders_gone) == channel = <<>> /\ senders_gone

\* The values a run starts from.
RunStart ==
    /\ sync_pc = "start"
    /\ existing_files = <<>> /\ directories = <<>>
    /\ hashers = [w \in Workers |-> IdleTask] /\ hash_channel = <<>>
    /\ hash_receiver = FALSE /\ operations = <<>> /\ total_operations = 0
    /\ executors = [w \in Workers |-> IdleExecutor] /\ results = <<>>
    /\ result_receiver = FALSE /\ completed_operations = 0
    /\ remote_index = <<>> /\ store_at_start = <<>>
    /\ planned = EmptyBag /\ applied = EmptyBag /\ listed = EmptyBag /\ hashed = EmptyBag
    /\ scan_errors = {}

Init ==
    /\ UploadIdle /\ WebIdle /\ ApiIdle /\ LockIdle /\ BackupIdle /\ HandlerIdle
    /\ tree \in Trees
    /\ \E a, b \in EntriesBefore :
          store = (PathA :> a) @@ (PathB :> b)
                  @@ (PathOutside :> StoredFile(<<2>>, Some(Hash(<<2>>))))
    /\ run = "first" /\ previous_total = 0
    /\ RunStart

\* cli.rs:303-327: the root check, the remote index, the pending stack and
\* the hash_directories tasks.
SyncStart ==
    /\ sync_pc = "start"
    /\ IF Location \notin DOMAIN tree
       THEN /\ sync_pc' = "err"
            /\ UNCHANGED <<existing_files, remote_index, directories, hashers,
                           hash_receiver, store_at_start>>
       ELSE \E listing_ok \in BOOLEAN :
              IF ~listing_ok
              THEN /\ sync_pc' = "err"
                   /\ UNCHANGED <<existing_files, remote_index, directories, hashers,
                                  hash_receiver, store_at_start>>
              ELSE /\ existing_files' =
                          ListFiles(StoreKey(Project, SyncPrefix(RemotePathArg)), store)
                   /\ remote_index' = existing_files'
                   /\ store_at_start' = store
                   /\ directories' = <<[directory |-> Location,
                                        remote_path |-> SyncPrefix(RemotePathArg)]>>
                   /\ hashers' = [w \in Workers |-> [IdleTask EXCEPT !.pc = "pop"]]
                   /\ hash_receiver' = TRUE
                   /\ sync_pc' = "drain"
    /\ UNCHANGED <<store, uvars, wvars, avars, lvars, bvars, pvars, run, tree, hash_channel, operations, total_operations,
                   executors, results, result_receiver, completed_operations, planned,
                   applied, listed, hashed, scan_errors, previous_total>>

\* cli.rs:408-415: pop a pending directory, or leave the loop.
HashPop(w) ==
    /\ hashers[w].pc = "pop"
    /\ IF directories = <<>>
       THEN /\ hashers' = [hashers EXCEPT ![w].pc = "done"]
            /\ UNCHANGED directories
       ELSE /\ hashers' = [hashers EXCEPT ![w] =
                             [pc |-> "read_dir", directory |-> Last(directories).directory,
                              remote_path |-> Last(directories).remote_path,
                              contents |-> {}]]
            /\ directories' = Pop(directories)
    /\ UNCHANGED <<store, uvars, wvars, avars, lvars, bvars, pvars, sync_pc, run, tree, existing_files, hash_channel,
                   hash_receiver, operations, total_operations, executors, results,
                   result_receiver, completed_operations, remote_index, store_at_start,
                   planned, applied, listed, hashed, scan_errors, previous_total>>

\* cli.rs:417-422: check_directory returned the error of a file system call on
\* `remote_path`: it is sent, and the task ends.
ScanFails(w, remote_path) ==
    /\ hash_channel' = Send(hash_channel, hash_receiver, ErrHash(remote_path))
    /\ scan_errors' = scan_errors \cup {remote_path}
    /\ hashers' = [hashers EXCEPT ![w].pc = "done"]

\* cli.rs:432: tokio::fs::read_dir(&directory)
HashReadDir(w) ==
    /\ hashers[w].pc = "read_dir"
    /\ \/ /\ hashers' = [hashers EXCEPT ![w].pc = "entries",
                                        ![w].contents = tree[hashers[w].directory]]
          /\ listed' = listed (+) SetToBag({hashers[w].directory})
          /\ UNCHANGED <<hash_channel, scan_errors>>
       \/ /\ ScanFails(w, hashers[w].remote_path)
          /\ UNCHANGED listed
    /\ UNCHANGED <<store, uvars, wvars, avars, lvars, bvars, pvars, sync_pc, run, tree, existing_files, directories,
                   hash_receiver, operations, total_operations, executors, results,
                   result_receiver, completed_operations, remote_index, store_at_start,
                   planned, applied, hashed, previous_total>>

\* cli.rs:433-470: one turn of the loop over the entries of the directory.
HashEntry(w) ==
    LET me == hashers[w] IN
    /\ me.pc = "entries"
    /\ IF me.contents = {}
       THEN \* next_entry() returned None: check_directory returns Ok(())
            /\ hashers' = [hashers EXCEPT ![w].pc = "pop"]
            /\ UNCHANGED <<directories, hash_channel, hashed, scan_errors>>
       ELSE \E entry \in me.contents :
              \/ \* next_entry, file_type, File::open or read returned an error
                 /\ ScanFails(w, me.remote_path \o entry.name)
                 /\ UNCHANGED <<directories, hashed>>
              \/ \* cli.rs:435-441: a name that is not UTF-8 is skipped
                 /\ ~entry.utf8
                 /\ hashers' = [hashers EXCEPT ![w].contents = @ \ {entry}]
                 /\ UNCHANGED <<directories, hash_channel, hashed, scan_errors>>
              \/ \* cli.rs:443-446: a directory is pushed
                 /\ entry.utf8 /\ entry.is_dir
                 /\ directories' = Push(directories,
                        [directory |-> JoinPath(me.directory, entry.name),
                         remote_path |-> me.remote_path \o entry.name \o <<"/">>])
                 /\ hashers' = [hashers EXCEPT ![w].contents = @ \ {entry}]
                 /\ UNCHANGED <<hash_channel, hashed, scan_errors>>
              \/ \* cli.rs:448-466: a file is hashed and sent; a send on a channel
                 \* without receiver ends the task
                 /\ entry.utf8 /\ ~entry.is_dir
                 /\ LET fh == OkHash(JoinPath(me.directory, entry.name),
                                     me.remote_path \o entry.name, Hash(entry.bytes))
                    IN  IF hash_receiver
                        THEN /\ hash_channel' = Append(hash_channel, fh)
                             /\ hashed' = hashed (+) SetToBag({fh})
                             /\ hashers' = [hashers EXCEPT ![w].contents = @ \ {entry}]
                        ELSE /\ hashers' = [hashers EXCEPT ![w].pc = "done"]
                             /\ UNCHANGED <<hash_channel, hashed>>
                 /\ UNCHANGED <<directories, scan_errors>>
    /\ UNCHANGED <<store, uvars, wvars, avars, lvars, bvars, pvars, sync_pc, run, tree, existing_files, hash_receiver,
                   operations, total_operations, executors, results, result_receiver,
                   completed_operations, remote_index, store_at_start, planned, applied,
                   listed, previous_total>>

EnqueueUncounted(ops) ==
    /\ operations' = operations \o ops
    /\ planned' = planned (+) SeqToBag(ops)
    /\ total_operations' = total_operations
\* operation_sender.send(op) with the count of cli.rs:337, 341 and 347.
Enqueue(ops) ==
    /\ operations' = operations \o ops
    /\ planned' = planned (+) SeqToBag(ops)
    /\ total_operations' = total_operations + Len(ops)

\* cli.rs:331-344: receive one scan result and plan for it; the loop ends
\* when every sender is gone and the channel is empty.
SyncDrain ==
    /\ sync_pc = "drain"
    /\ IF hash_channel # <<>>
       THEN LET result == Head(hash_channel)
                key == StoreKey(Project, result.remote_path)
            IN  /\ hash_channel' = Tail(hash_channel)
                /\ IF IsErr(result)
                   THEN /\ sync_pc' = "err"
                        /\ hash_receiver' = FALSE
                        /\ UNCHANGED <<existing_files, operations, planned,
                                       total_operations>>
                   ELSE /\ UNCHANGED <<sync_pc, hash_receiver>>
                        /\ IF key \in DOMAIN existing_files
                           THEN /\ existing_files' = RemoveKey(existing_files, key)
                                /\ IF DigestsDiffer(existing_files[key], result.blake3)
                                   THEN Enqueue(<<ReplaceOp(result)>>)
                                   ELSE Enqueue(<<>>)
                           ELSE /\ Enqueue(<<CreateOp(result)>>)
                                /\ UNCHANGED existing_files
       ELSE /\ RecvDisconnected(hash_channel, \A w \in Workers : hashers[w].pc = "done")
            /\ sync_pc' = "deletes"
            /\ UNCHANGED <<hash_channel, hash_receiver, existing_files, operations,
                           planned, total_operations>>
    /\ UNCHANGED <<store, uvars, wvars, avars, lvars, bvars, pvars, run, tree, directories, hashers, executors, results,
                   result_receiver, completed_operations, remote_index, store_at_start,
                   applied, listed, hashed, scan_errors, previous_total>>

\* cli.rs:346-350: a Delete for every path left in existing_files.
SyncEnqueueDeletes ==
    /\ sync_pc = "deletes"
    /\ \E order \in Orders(DOMAIN existing_files) :
          Enqueue([i \in DOMAIN order |-> DeleteOp(order[i])])
    /\ existing_files' = <<>>
    /\ hash_receiver' = FALSE
    /\ sync_pc' = "spawn"
    /\ UNCHANGED <<store, uvars, wvars, avars, lvars, bvars, pvars, run, tree, directories, hashers, hash_channel,
                   executors, results, result_receiver, completed_operations,
                   remote_index, store_at_start, applied, listed, hashed, scan_errors,
                   previous_total>>

\* cli.rs:352-363: the perform_sync_operations tasks.
SyncSpawnExecutors ==
    /\ sync_pc = "spawn"
    /\ executors' = [w \in Workers |-> [IdleExecutor EXCEPT !.pc = "recv"]]
    /\ result_receiver' = TRUE
    /\ sync_pc' = "results"
    /\ UNCHANGED <<store, uvars, wvars, avars, lvars, bvars, pvars, run, tree, existing_files, directories, hashers,
                   hash_channel, hash_receiver, operations, total_operations, results,
                   completed_operations, remote_index, store_at_start, planned, applied,
                   listed, hashed, scan_errors, previous_total>>

\* cli.rs:479: operations.recv_async(); every sender was dropped at cli.rs:350.
ExecRecv(w) ==
    /\ executors[w].pc = "recv"
    /\ IF operations # <<>>
       THEN /\ executors' = [executors EXCEPT ![w] =
                               [pc |-> "perform", op |-> Head(operations)]]
            /\ operations' = Dequeue(operations)
       ELSE /\ executors' = [executors EXCEPT ![w].pc = "done"]
            /\ UNCHANGED operations
    /\ UNCHANGED <<store, uvars, wvars, avars, lvars, bvars, pvars, sync_pc, run, tree, existing_files, directories,
                   hashers, hash_channel, hash_receiver, total_operations, results,
                   result_receiver, completed_operations, remote_index, store_at_start,
                   planned, applied, listed, hashed, scan_errors, previous_total>>

\* cli.rs:480-485: perform the operation and send its result; a send on a
\* channel without receiver ends the task.
ExecPerform(w) ==
    LET op == executors[w].op IN
    /\ executors[w].pc = "perform"
    /\ \E outcome \in PerformSyncOperation(op, store, tree) :
          /\ store' = [store EXCEPT ![OperationPath(op)] = outcome.file]
          /\ results' = Send(results, result_receiver,
                             [kind |-> IF outcome.ok THEN "ok" ELSE "err",
                              path |-> op.remote_path])
    /\ applied' = applied (+) SetToBag({op})
    /\ executors' = [executors EXCEPT ![w] =
                       [pc |-> IF result_receiver THEN "recv" ELSE "done", op |-> NoOp]]
    /\ UNCHANGED <<uvars, wvars, avars, lvars, bvars, pvars, sync_pc, run, tree, existing_files, directories, hashers,
                   hash_channel, hash_receiver, operations, total_operations,
                   result_receiver, completed_operations, remote_index, store_at_start,
                   planned, listed, hashed, scan_errors, previous_total>>

\* cli.rs:365-372: receive one result; the first error ends the run, and the
\* loop ends when every sender is gone and the channel is empty.
SyncResults ==
    /\ sync_pc = "results"
    /\ IF results # <<>>
       THEN /\ results' = Tail(results)
            /\ IF Head(results).kind = "err"
               THEN /\ sync_pc' = "err"
                    /\ result_receiver' = FALSE
                    /\ UNCHANGED completed_operations
               ELSE /\ completed_operations' = completed_operations + 1
                    /\ UNCHANGED <<sync_pc, result_receiver>>
       ELSE /\ RecvDisconnected(results, \A w \in Workers : executors[w].pc = "done")
            /\ sync_pc' = "ok"
            /\ result_receiver' = FALSE
            /\ UNCHANGED <<results, completed_operations>>
    /\ UNCHANGED <<store, uvars, wvars, avars, lvars, bvars, pvars, run, tree, existing_files, directories, hashers,
                   hash_channel, hash_receiver, operations, total_operations, executors,
                   remote_index, store_at_start, planned, applied, listed, hashed,
                   scan_errors, previous_total>>

\* The command is given again for the same directory after a run that
\* returned Ok.
SyncAgain ==
    /\ sync_pc = "ok" /\ run = "first"
    /\ run' = "second"
    /\ previous_total' = total_operations
    /\ sync_pc' = "start"
    /\ existing_files' = <<>> /\ directories' = <<>>
    /\ hashers' = [w \in Workers |-> IdleTask] /\ hash_channel' = <<>>
    /\ hash_receiver' = FALSE /\ operations' = <<>> /\ total_operations' = 0
    /\ executors' = [w \in Workers |-> IdleExecutor] /\ results' = <<>>
    /\ result_receiver' = FALSE /\ completed_operations' = 0
    /\ remote_index' = <<>> /\ store_at_start' = <<>>
    /\ planned' = EmptyBag /\ applied' = EmptyBag /\ listed' = EmptyBag
    /\ hashed' = EmptyBag
    /\ scan_errors' = {}
    /\ UNCHANGED <<store, uvars, wvars, avars, lvars, bvars, pvars, tree>>

\* One run of sync_directory with its tasks.
NextRun ==
    \/ SyncStart
    \/ \E w \in Workers : HashPop(w)
    \/ \E w \in Workers : HashReadDir(w)
    \/ \E w \in Workers : HashEntry(w)
    \/ SyncDrain
    \/ SyncEnqueueDeletes
    \/ SyncSpawnExecutors
    \/ \E w \in Workers : ExecRecv(w)
    \/ \E w \in Workers : ExecPerform(w)
    \/ SyncResults
Next == NextRun \/ SyncAgain

Spec == Init /\ [][Next]_vars
\* One run on a directory with a one-byte file a and an empty d, or on what
\* is no directory, with a stored file d/b.  The tasks are scheduled by the tokio
\* runtime and every call on the file system and on the store returns: the
\* run does not stop while sync_directory or one of its tasks can take a step.
InitRun ==
    /\ Init
    /\ tree \in {TreeOf(Some(<<2>>), None), <<>>}
    /\ store[PathB] = StoredFile(<<2>>, Some(Hash(<<2>>)))
SpecFair == InitRun /\ [][NextRun]_vars /\ WF_vars(NextRun)

\* ---------------------------------- the lock of the pending directories
\* The scan of sync_directory with the steps of a task on the Mutex of
\* `directories` told apart: a task at directories.lock() waits until nobody
\* holds the guard, and the guard is dropped where its scope ends.
GuardKept(holder) == holder
\* cli.rs:415 and cli.rs:447: the MutexGuard goes out of scope.
DropGuard(holder) == NoHolder

\* What the scan leaves alone.
ScanFrame ==
    UNCHANGED <<store, uvars, wvars, avars, bvars, pvars, sync_pc, run, tree, existing_files,
                hash_receiver, operations, total_operations, executors, results,
                result_receiver, completed_operations, remote_index, store_at_start,
                planned, applied, listed, previous_total>>

\* cli.rs:410: directories.lock() at the top of the loop of hash_directories.
LockForPop(w) ==
    /\ hashers[w].pc = "pop" /\ lock_holder = NoHolder
    /\ lock_holder' = w
    /\ hashers' = [hashers EXCEPT ![w].pc = "popping"]
    /\ UNCHANGED <<directories, pushing, hash_channel, hashed, scan_errors>>
    /\ ScanFrame

\* cli.rs:411-415: directories.pop() under the guard, which is dropped at the
\* end of the block or at the break.
PopLocked(w) ==
    /\ hashers[w].pc = "popping"
    /\ IF directories = <<>>
       THEN /\ hashers' = [hashers EXCEPT ![w].pc = "done"]
            /\ UNCHANGED directories
       ELSE /\ hashers' = [hashers EXCEPT ![w] =
                             [pc |-> "read_dir", directory |-> Last(directories).directory,
                              remote_path |-> Last(directories).remote_path,
                              contents |-> {}]]
            /\ directories' = Pop(directories)
    /\ lock_holder' = DropGuard(lock_holder)
    /\ UNCHANGED <<pushing, hash_channel, hashed, scan_errors>>
    /\ ScanFrame

\* cli.rs:433-442 and 448-466: a turn of the loop of check_directory on an
\* entry that is no directory, or that fails, or the end of the entries.
HashOtherEntry(w) == HashEntry(w) /\ directories' = directories

\* cli.rs:433-444: next_entry and file_type returned a directory with a UTF-8
\* name; the task comes to directories.lock().
HashDirEntry(w) ==
    /\ hashers[w].pc = "entries"
    /\ \E entry \in hashers[w].contents :
          /\ entry.utf8 /\ entry.is_dir
          /\ pushing' = [pushing EXCEPT ![w] = entry]
    /\ hashers' = [hashers EXCEPT ![w].pc = "lock_push"]
    /\ UNCHANGED <<lock_holder, directories, hash_channel, hashed, scan_errors>>
    /\ ScanFrame

\* cli.rs:445: directories.lock() in check_directory.
LockForPush(w) ==
    /\ hashers[w].pc = "lock_push" /\ lock_holder = NoHolder
    /\ lock_holder' = w
    /\ hashers' = [hashers EXCEPT ![w].pc = "pushing"]
    /\ UNCHANGED <<directories, pushing, hash_channel, hashed, scan_errors>>
    /\ ScanFrame

\* cli.rs:446-447: directories.push(..) under the guard, which is dropped at
\* the end of the branch, before the next next_entry().await.
PushLocked(w) ==
    LET me == hashers[w] IN
    /\ me.pc = "pushing"
    /\ directories' = Push(directories,
           [directory |-> JoinPath(me.directory, pushing[w].name),
            remote_path |-> me.remote_path \o pushing[w].name \o <<"/">>])
    /\ hashers' = [hashers EXCEPT ![w].pc = "entries", ![w].contents = @ \ {pushing[w]}]
    /\ pushing' = [pushing EXCEPT ![w] = NoEntry]
    /\ lock_holder' = DropGuard(lock_holder)
    /\ UNCHANGED <<hash_channel, hashed, scan_errors>>
    /\ ScanFrame

\* The scan of a run whose store holds nothing under the prefix.
InitLock == Init /\ store[PathA] = NoFile /\ store[PathB] = NoFile
NextLock ==
    \/ SyncStart
    \/ \E w \in Workers : LockForPop(w)
    \/ \E w \in Workers : PopLocked(w)
    \/ \E w \in Workers : HashReadDir(w)
    \/ \E w \in Workers : HashOtherEntry(w)
    \/ \E w \in Workers : HashDirEntry(w)
    \/ \E w \in Workers : LockForPush(w)
    \/ \E w \in Workers : PushLocked(w)
    \/ SyncDrain
SpecLock == InitLock /\ [][NextLock]_vars

\* ------------------------------------------------------------------ backup
\* number_of_tasks of cli.rs:571, the tasks and the capacity of the channel.
NumberOfTasks == 2
\* The most files list_recursive_async returns.
MaxBackupFiles == 5
Tasks == 1..NumberOfTasks

\* The receivers of the channel that are alive: the clone each running task
\* holds (cli.rs:576) and `receiver` itself (cli.rs:572), which backup keeps
\* until it returns.
Receivers(pc, ts) ==
    Cardinality({t \in Tasks : ts[t] \in {"recv", "file"}})
    + (IF pc \in {"ok", "err"} THEN 0 ELSE 1)
\* flume::Sender::send_async on the bounded channel: an error without
\* receiver, a wait while the channel is full, the message queued otherwise.
SendAsync(queue, capacity, receivers) ==
    IF receivers = 0 THEN "disconnected"
    ELSE IF Len(queue) >= capacity THEN "full" ELSE "sent"
\* `sender` is alive while backup is in the loop of cli.rs:623: it is dropped
\* at cli.rs:627, or with the return of an error.
SenderAlive(pc) == pc \in {"list", "send"}

BackupFrame == UNCHANGED <<store, uvars, svars, wvars, avars, lvars, pvars>>

\* cli.rs:565-621: the destination, the list of the files, the channel and
\* the tasks.
BackupList ==
    /\ backup_pc = "list"
    /\ \/ /\ backup_pc' = "err"
          /\ UNCHANGED <<files, tasks>>
       \/ \E n \in 0..MaxBackupFiles :
             /\ files' = [i \in 1..n |-> i]
             /\ tasks' = [t \in Tasks |-> "recv"]
             /\ backup_pc' = "send"
    /\ UNCHANGED <<backup_channel, awaited>>
    /\ BackupFrame

\* cli.rs:623-627: sender.send_async(file).await? for the next file, and
\* drop(sender) after the last.
BackupSend ==
    /\ backup_pc = "send"
    /\ IF files = <<>>
       THEN /\ backup_pc' = "join"
            /\ UNCHANGED <<files, backup_channel>>
       ELSE LET sent == SendAsync(backup_channel, NumberOfTasks,
                                  Receivers(backup_pc, tasks))
            IN  /\ sent # "full"
                /\ IF sent = "sent"
                   THEN /\ backup_channel' = Append(backup_channel, Head(files))
                        /\ files' = Tail(files)
                        /\ UNCHANGED backup_pc
                   ELSE /\ backup_pc' = "err"
                        /\ UNCHANGED <<files, backup_channel>>
    /\ UNCHANGED <<tasks, awaited>>
    /\ BackupFrame

\* cli.rs:580: receiver.recv_async() in a task; the loop ends when the
\* channel is empty and the sender dropped.
TaskRecv(t) ==
    /\ t \in DOMAIN tasks /\ tasks[t] = "recv"
    /\ IF backup_channel # <<>>
       THEN /\ backup_channel' = Dequeue(backup_channel)
            /\ tasks' = [tasks EXCEPT ![t] = "file"]
       ELSE /\ RecvDisconnected(backup_channel, ~SenderAlive(backup_pc))
            /\ tasks' = [tasks EXCEPT ![t] = "ok"]
            /\ UNCHANGED backup_channel
    /\ UNCHANGED <<backup_pc, files, awaited>>
    /\ BackupFrame

\* cli.rs:581-617: the file is skipped or written, or a call fails and the
\* task returns the error.
TaskFile(t) ==
    /\ t \in DOMAIN tasks /\ tasks[t] = "file"
    /\ \E ok \in BOOLEAN : tasks' = [tasks EXCEPT ![t] = IF ok THEN "recv" ELSE "err"]
    /\ UNCHANGED <<backup_pc, files, backup_channel, awaited>>
    /\ BackupFrame

\* cli.rs:629-631: task.await?? for the tasks in their order.
BackupJoin ==
    /\ backup_pc = "join"
    /\ IF awaited = NumberOfTasks
       THEN backup_pc' = "write" /\ UNCHANGED awaited
       ELSE \/ /\ tasks[awaited + 1] = "ok"
               /\ awaited' = awaited + 1
               /\ UNCHANGED backup_pc
            \/ /\ tasks[awaited + 1] = "err"
               /\ backup_pc' = "err"
               /\ UNCHANGED awaited
    /\ UNCHANGED <<files, backup_channel, tasks>>
    /\ BackupFrame

\* cli.rs:633-645: the projects and the API tokens are written.
BackupWrite ==
    /\ backup_pc = "write"
    /\ backup_pc' \in {"ok", "err"}
    /\ UNCHANGED <<files, backup_channel, tasks, awaited>>
    /\ BackupFrame

InitBackup ==
    /\ UploadIdle /\ SyncIdle /\ WebIdle /\ ApiIdle /\ LockIdle /\ HandlerIdle
    /\ store = [p \in SyncPaths |-> NoFile]
    /\ backup_pc = "list" /\ files = <<>> /\ backup_channel = <<>> /\ tasks = <<>>
    /\ awaited = 0
NextBackup ==
    \/ BackupList
    \/ BackupSend
    \/ \E t \in Tasks : TaskRecv(t)
    \/ \E t \in Tasks : TaskFile(t)
    \/ BackupJoin
    \/ BackupWrite
\* The tokio runtime runs backup and every task that can go on.
SpecBackup == InitBackup /\ [][NextBackup]_vars /\ WF_vars(NextBackup)


\* ------------------------------------------------- claims on sync_directory
\* The plan of a run is complete once the Delete operations were sent.
PlanComplete == sync_pc = "spawn" \/ executors[1].pc # "unspawned"
\* Every hash_directories task has returned, so the hash channel has no sender.
ScanClosed == \A w \in Workers : hashers[w].pc = "done"

\* The plan the claim states for the index R and the scan records L.
C2_ExpectedPlan ==
    LET L == BagToSet(hashed)
        R == remote_index
        Key(fh) == StoreKey(Project, fh.remote_path)
    IN  {CreateOp(fh) : fh \in {x \in L : Key(x) \notin DOMAIN R}}
        \cup {ReplaceOp(fh) :
                 fh \in {x \in L : Key(x) \in DOMAIN R /\ R[Key(x)] # x.blake3}}
        \cup {DeleteOp(file) : file \in DOMAIN R \ {Key(x) : x \in L}}
\* C2: with R the index read at the start of the run and L the records the
\* scan delivered, the operations sent are exactly a Create for each path of L
\* not in R, a Replace for each path in both with different digests and a
\* Delete for each path of R not in L, each once, and total_operations counts them.
C2_ExactPlan ==
    PlanComplete =>
        /\ BagToSet(planned) = C2_ExpectedPlan
        /\ BagCardinality(planned) = Cardinality(C2_ExpectedPlan)
        /\ total_operations = Cardinality(C2_ExpectedPlan)
\* A plan of a Replace for /p/s/a and a Delete for /p/s/d/b.
C2_Witness ==
    /\ PlanComplete
    /\ \E op \in BagToSet(planned) : op.kind = "Replace" /\ OperationPath(op) = PathA
    /\ DeleteOp(PathB) \in BagToSet(planned)

\* C3: no two operations sent in a run act on the same path of the store.
C3_OnePathOneOperation ==
    /\ \A op \in BagToSet(planned) : CopiesIn(op, planned) = 1
    /\ \A op1, op2 \in BagToSet(planned) :
          OperationPath(op1) = OperationPath(op2) => op1 = op2
\* A plan that has an upload for one path and a Delete for another.
C3_Witness ==
    /\ PlanComplete
    /\ \E op \in BagToSet(planned) : op.kind = "Create" /\ OperationPath(op) = PathA
    /\ DeleteOp(PathB) \in BagToSet(planned)

\* C4: once a scan error was reported, no operation was sent for its path or
\* for a path below it, the run does not get past the planning loop other
\* than by returning the error, no Delete was sent, and the store is as it
\* was when the run started.
C4_ScanErrorSurfaced ==
    scan_errors # {} =>
        /\ sync_pc \in {"drain", "err"}
        /\ \A e \in scan_errors : \A op \in BagToSet(planned) :
              ~IsPrefix(StoreKey(Project, e), OperationPath(op))
        /\ \A op \in BagToSet(planned) : op.kind # "Delete"
        /\ applied = EmptyBag
        /\ store = store_at_start
\* A run that returned the error of a scan while the index held a file the
\* tree does not have, after it had sent an operation for another file.
C4_Witness ==
    /\ scan_errors # {} /\ sync_pc = "err"
    /\ planned # EmptyBag
    /\ PathB \in DOMAIN remote_index
    /\ JoinPath(Location, <<"d">>) \in DOMAIN tree
    /\ tree[JoinPath(Location, <<"d">>)] = {}

\* C5: the run after a run that returned Ok sends no operation.
C5_Idempotence ==
    run = "second" /\ PlanComplete =>
        planned = EmptyBag /\ total_operations = 0 /\ operations = <<>>
\* The second run returned Ok after a first run that had operations to perform.
C5_Witness == run = "second" /\ sync_pc = "ok" /\ previous_total > 0

\* The directories and files a scan from `Location` reaches: those whose
\* name, and the name of every directory on the way, is valid UTF-8.
RECURSIVE C8_Reached(_, _, _)
C8_Reached(t, dirs, depth) ==
    IF depth = 0 THEN dirs
    ELSE C8_Reached(t, dirs \cup
            UNION {{JoinPath(d, e.name) : e \in {x \in t[d] : x.utf8 /\ x.is_dir}} :
                      d \in dirs \cap DOMAIN t}, depth - 1)
C8_Directories(t) == C8_Reached(t, {Location}, Cardinality(DOMAIN t))
C8_Records(t) ==
    UNION {{OkHash(JoinPath(d, e.name),
                   SyncPrefix(RemotePathArg)
                       \o SubSeq(JoinPath(d, e.name), Len(Location) + 2,
                                 Len(JoinPath(d, e.name))),
                   Hash(e.bytes)) :
               e \in {x \in t[d] : x.utf8 /\ ~x.is_dir}} :
              d \in C8_Directories(t) \cap DOMAIN t}

\* C8, as stated: after a scan without error there is exactly one record for
\* every file of the tree, and every directory of the tree was listed once.
C8_OneRecordPerFile ==
    ScanClosed /\ scan_errors = {} =>
        /\ \A f \in LocalFiles(tree) :
              Cardinality({fh \in BagToSet(hashed) : fh.path = f.path}) = 1
        /\ \A d \in DOMAIN tree : CopiesIn(d, listed) = 1
\* C8, amended: no directory is listed twice and no record delivered twice;
\* after a scan without error there is exactly one record, with the mirrored
\* remote path and the digest of the bytes, for every file reached through
\* names that are valid UTF-8, and every such directory was listed once.
C8_OneRecordPerNamedFile ==
    /\ \A d \in BagToSet(listed) : CopiesIn(d, listed) = 1
    /\ \A fh \in BagToSet(hashed) : CopiesIn(fh, hashed) = 1
    /\ BagToSet(hashed) \subseteq C8_Records(tree)
    /\ (ScanClosed /\ scan_errors = {} =>
            /\ BagToSet(hashed) = C8_Records(tree)
            /\ BagToSet(listed) = C8_Directories(tree))
\* A scan without error of a tree with a file in the root and one in a
\* directory: two records, three directories listed.
C8_Witness ==
    /\ ScanClosed /\ scan_errors = {}
    /\ BagCardinality(hashed) = 2
    /\ BagCardinality(listed) = 3

\* How often an operation is in the channel, and how many executors hold it.
C9_InChannel(op) == Cardinality({i \in DOMAIN operations : operations[i] = op})
C9_Held(op) ==
    Cardinality({w \in Workers : executors[w].pc = "perform" /\ executors[w].op = op})
\* C9: every operation sent is in the channel, held by one executor, or was
\* performed, and only one of these; after a run that returned Ok the
\* operations performed are the operations sent, each once.
C9_ExactlyOneExecutor ==
    /\ \A op \in BagToSet(planned) :
          C9_InChannel(op) + C9_Held(op) + CopiesIn(op, applied) = 1
    /\ \A op \in BagToSet(applied) : op \in BagToSet(planned)
    /\ (sync_pc = "ok" => applied = planned)
\* A run that returned Ok after its two operations were performed, one by
\* each executor.
C9_Witness ==
    /\ sync_pc = "ok" /\ run = "first"
    /\ BagCardinality(applied) = 2
    /\ results = <<>> /\ completed_operations = 2


\* ---------------------------------------------------------- the web server
\* The characters of a visible-ASCII string, from ' ' (32) to '~' (126), each
\* a string of its own (those for 92 and 96 spelled out), and a character outside
\* of them.
Ascii ==
    <<" ", "!", "\"", "#", "$", "%", "&", "'", "(", ")", "*", "+", ",", "-",
      ".", "/", "0", "1", "2", "3", "4", "5", "6", "7", "8", "9", ":", ";",
      "<", "=", ">", "?", "@", "A", "B", "C", "D", "E", "F", "G", "H", "I",
      "J", "K", "L", "M", "N", "O", "P", "Q", "R", "S", "T", "U", "V", "W",
      "X", "Y", "Z", "[", "backslash", "]", "^", "_", "backtick", "a", "b", "c", "d", "e",
      "f", "g", "h", "i", "j", "k", "l", "m", "n", "o", "p", "q", "r", "s",
      "t", "u", "v", "w", "x", "y", "z", "{", "|", "}", "~">>
OtherChar == "other"
\* char::from(byte)
Chr(byte) == IF byte \in 32..126 THEN Ascii[byte - 31] ELSE OtherChar

\* The alphabets of base64::STANDARD and base64::URL_SAFE.
Letters ==
    <<"A", "B", "C", "D", "E", "F", "G", "H", "I", "J", "K", "L", "M", "N",
      "O", "P", "Q", "R", "S", "T", "U", "V", "W", "X", "Y", "Z", "a", "b",
      "c", "d", "e", "f", "g", "h", "i", "j", "k", "l", "m", "n", "o", "p",
      "q", "r", "s", "t", "u", "v", "w", "x", "y", "z", "0", "1", "2", "3",
      "4", "5", "6", "7", "8", "9">>
StandardAlphabet == Letters \o <<"+", "/">>
UrlSafeAlphabet == Letters \o <<"-", "_">>

\* The 6-bit symbols of a byte string, without padding.
RECURSIVE EncodeSymbols(_)
EncodeSymbols(bytes) ==
    IF bytes = <<>> THEN <<>>
    ELSE IF Len(bytes) = 1
    THEN <<bytes[1] \div 4, (bytes[1] % 4) * 16>>
    ELSE IF Len(bytes) = 2
    THEN <<bytes[1] \div 4, (bytes[1] % 4) * 16 + bytes[2] \div 16,
           (bytes[2] % 16) * 4>>
    ELSE <<bytes[1] \div 4, (bytes[1] % 4) * 16 + bytes[2] \div 16,
           (bytes[2] % 16) * 4 + bytes[3] \div 64, bytes[3] % 64>>
         \o EncodeSymbols(SubSeq(bytes, 4, Len(bytes)))
\* base64::encode_config(bytes, config) for a config without padding
EncodeConfig(bytes, alphabet) ==
    LET symbols == EncodeSymbols(bytes)
    IN  [i \in DOMAIN symbols |-> alphabet[symbols[i] + 1]]

\* The bytes of a string of 6-bit symbols: an Err for a length that leaves a
\* single symbol and for a last symbol with bits that belong to no byte.
RECURSIVE DecodeSymbols(_)
DecodeSymbols(symbols) ==
    IF symbols = <<>> THEN Some(<<>>)
    ELSE IF Len(symbols) = 1 THEN None
    ELSE IF Len(symbols) = 2
    THEN IF symbols[2] % 16 # 0 THEN None
         ELSE Some(<<symbols[1] * 4 + symbols[2] \div 16>>)
    ELSE IF Len(symbols) = 3
    THEN IF symbols[3] % 4 # 0 THEN None
         ELSE Some(<<symbols[1] * 4 + symbols[2] \div 16,
                     (symbols[2] % 16) * 16 + symbols[3] \div 4>>)
    ELSE LET rest == DecodeSymbols(SubSeq(symbols, 5, Len(symbols)))
         IN  IF rest = None THEN None
             ELSE Some(<<symbols[1] * 4 + symbols[2] \div 16,
                         (symbols[2] % 16) * 16 + symbols[3] \div 4,
                         (symbols[3] % 4) * 64 + symbols[4]>> \o rest[1])
\* base64::decode(input), which decodes with base64::STANDARD: Some(bytes) for
\* Ok and None for Err.  The strings decoded here carry no '=' padding.
Base64Decode(input) ==
    IF \E i \in DOMAIN input : input[i] \notin Range(StandardAlphabet) THEN None
    ELSE DecodeSymbols([i \in DOMAIN input |->
            (CHOOSE k \in DOMAIN StandardAlphabet : StandardAlphabet[k] = input[i]) - 1])

\* str::split(ch): the pieces between the occurrences of ch.
RECURSIVE Split(_, _)
Split(str, ch) ==
    IF \A i \in DOMAIN str : str[i] # ch THEN <<str>>
    ELSE LET i == CHOOSE k \in DOMAIN str :
                      str[k] = ch /\ \A j \in 1..(k - 1) : str[j] # ch
         IN  <<SubSeq(str, 1, i - 1)>> \o Split(SubSeq(str, i + 1, Len(str)), ch)

\* HeaderValue::to_str succeeds on visible ASCII.
ToStrOk(value) == \A i \in DOMAIN value : value[i] \in Range(Ascii)
\* tag.try_into() of webserver.rs:148: the bytes as a digest, when they have its length.
DigestLen == Len(HasherFinalize(HasherNew))
TryInto(bytes) == IF Len(bytes) = DigestLen THEN Some(bytes) ELSE None

\* parse_etags (webserver.rs:141-155): None when the value is no string or a
\* field has no '"', else the set of the digests decoded from the fields.
ParseEtags(etags) ==
    IF ~ToStrOk(etags) THEN None
    ELSE LET fields == Split(etags, ",")
             Tag(quoted_tag) == Split(quoted_tag, "\"")
         IN  IF \E i \in DOMAIN fields : Len(Tag(fields[i])) < 2 THEN None
             ELSE Some({TryInto(Base64Decode(Tag(fields[i])[2])[1])[1] :
                          i \in {k \in DOMAIN fields :
                                   /\ Base64Decode(Tag(fields[k])[2]) # None
                                   /\ TryInto(Base64Decode(Tag(fields[k])[2])[1]) # None}})
\* Option::unwrap_or_default
UnwrapOrDefault(option) == IF option = None THEN {} ELSE option[1]

\* mime_guess::from_path(name).first_raw(): by the extension of the name.
MimeGuess(name) ==
    LET pieces == Split(name, ".")
    IN  IF Len(pieces) > 1 /\ Last(pieces) = <<"h", "t", "m", "l">>
        THEN Some("text/html") ELSE None

\* construct_page_response (webserver.rs:114-139)
ConstructPageResponse(req, mime_guess, metadata) ==
    LET not_modified ==
            /\ req.if_none_match # None
            /\ metadata # None
            /\ metadata[1] \in UnwrapOrDefault(ParseEtags(req.if_none_match[1]))
    IN  [send_body |-> ~not_modified,
         response |-> [NoResponse EXCEPT
             !.status = IF not_modified THEN 304 ELSE 200,
             !.content_type = mime_guess,
             !.etag = IF metadata = None THEN None
                      ELSE Some(EncodeConfig(metadata[1], UrlSafeAlphabet))]]

\* u8::from_str_radix(hex, 16) on two characters: None for an Err.
HexDigits == <<"0", "1", "2", "3", "4", "5", "6", "7", "8", "9",
               "a", "b", "c", "d", "e", "f">>
UpperHexDigits == <<"0", "1", "2", "3", "4", "5", "6", "7", "8", "9",
                    "A", "B", "C", "D", "E", "F">>
HexValue(ch) ==
    IF ch \in Range(HexDigits)
    THEN Some((CHOOSE k \in DOMAIN HexDigits : HexDigits[k] = ch) - 1)
    ELSE IF ch \in Range(UpperHexDigits)
    THEN Some((CHOOSE k \in DOMAIN UpperHexDigits : UpperHexDigits[k] = ch) - 1)
    ELSE None
FromStrRadix(high, low) ==
    IF HexValue(high) = None \/ HexValue(low) = None THEN None
    ELSE Some(HexValue(high)[1] * 16 + HexValue(low)[1])

RECURSIVE PercentDecodeKeepsSlash(_)
PercentDecodeKeepsSlash(chars) ==
    IF chars = <<>> THEN Some(<<>>)
    ELSE IF Head(chars) = "%"
    THEN IF Len(chars) < 3 \/ chars[2] = OtherChar \/ chars[3] = OtherChar THEN None
         ELSE LET byte == FromStrRadix(chars[2], chars[3])
                  rest == PercentDecodeKeepsSlash(SubSeq(chars, 4, Len(chars)))
              IN  IF byte = None \/ rest = None THEN None
                  ELSE Some(<<Chr(byte[1])>> \o rest[1])
    ELSE LET rest == PercentDecodeKeepsSlash(Tail(chars))
         IN  IF rest = None THEN None
             ELSE Some(<<IF Head(chars) = "+" THEN " " ELSE Head(chars)>> \o rest[1])
\* decode_escaped_path_components, the collect of PercentDecoder
\* (webserver.rs:173-209): None for an Err.
RECURSIVE PercentDecode(_)
PercentDecode(chars) ==
    IF chars = <<>> THEN Some(<<>>)
    ELSE IF Head(chars) = "%"
    THEN IF Len(chars) < 3 \/ chars[2] = OtherChar \/ chars[3] = OtherChar THEN None
         ELSE LET byte == FromStrRadix(chars[2], chars[3])
                  rest == PercentDecode(SubSeq(chars, 4, Len(chars)))
              IN  IF byte = None \/ byte = Some(47) \/ rest = None THEN None
                  ELSE Some(<<Chr(byte[1])>> \o rest[1])
    ELSE LET rest == PercentDecode(Tail(chars))
         IN  IF rest = None THEN None
             ELSE Some(<<IF Head(chars) = "+" THEN " " ELSE Head(chars)>> \o rest[1])

\* DossierFiles::load_async(path)
LoadFile(path, st) ==
    IF path \in DOMAIN st /\ st[path].exists THEN Some(path) ELSE None
ListDirAsGiven(path, st) ==
    {p \in DOMAIN st : st[p].exists /\ p = path \o LastSegment(p)}
\* DossierFiles::list_async(path): the files the directory `path` holds itself.
ListDir(path, st) ==
    LET dir == IF EndsWith(path, "/") THEN path ELSE path \o <<"/">>
    IN  {p \in DOMAIN st : st[p].exists /\ p = dir \o LastSegment(p)}
IndexPrefix == <<"i", "n", "d", "e", "x", ".">>

\* What get_page may find failing in the store.
WebFaults == {"none", "load", "list", "contents"}
InternalServerErrorAsNotFound ==
    [NoResponse EXCEPT !.status = 404, !.text = "Not found"]
InternalServerError ==
    [NoResponse EXCEPT !.status = 500, !.text = "an error occurred"]

\* get_page (webserver.rs:39-112) under get_page_with_error_handling
\* (webserver.rs:157-171), which answers an Err with 500.
GetPageWithErrorHandling(req, st, fault) ==
    LET path == PercentDecode(req.path)
        loaded == LoadFile(path[1], st)
        indexes == {p \in ListDir(path[1], st) : IsPrefix(IndexPrefix, LastSegment(p))}
        file == IF loaded # None THEN loaded
                ELSE IF indexes = {} THEN None
                ELSE Some(CHOOSE p \in indexes : TRUE)
        name == LastSegment(file[1])
        metadata == st[file[1]].metadata
        page == ConstructPageResponse(req, MimeGuess(name), metadata)
    IN  IF req.path = <<"/", "_", "w", "s">>
        THEN [NoResponse EXCEPT !.status = 101, !.upgraded = TRUE]
        ELSE IF path = None THEN InternalServerError
        ELSE IF fault = "load" THEN InternalServerError
        ELSE IF loaded = None /\ fault = "list" THEN InternalServerError
        ELSE IF loaded = None /\ file # None /\ ~EndsWith(path[1], "/")
        THEN [NoResponse EXCEPT !.status = 307, !.location = Some(path[1] \o <<"/">>)]
        ELSE IF file = None
        THEN [NoResponse EXCEPT !.status = 404, !.text = "Not found"]
        ELSE IF req.method = "GET"
        THEN IF page.send_body
             THEN IF fault = "contents" THEN InternalServerError
                  ELSE [page.response EXCEPT !.body = st[file[1]].contents]
             ELSE page.response
        ELSE IF req.method = "HEAD"
        THEN IF fault = "contents" THEN InternalServerError
             ELSE [page.response EXCEPT
                       !.content_length = Some(Len(st[file[1]].contents))]
        ELSE IF req.method = "OPTIONS"
        THEN [NoResponse EXCEPT !.status = 200, !.allow = Some("OPTIONS, GET, HEAD")]
        ELSE InternalServerError

\* The calls get_page makes on the store for a request, in order and up to
\* the one that fails, which "failed" follows: load_async (webserver.rs:51),
\* list_async (webserver.rs:54) and file.contents() (webserver.rs:85 and 99).
GetPageStoreCalls(req, st, fault) ==
    LET path == PercentDecode(req.path)
        loaded == LoadFile(path[1], st)
        indexes == {p \in ListDir(path[1], st) : IsPrefix(IndexPrefix, LastSegment(p))}
        file == IF loaded # None THEN loaded
                ELSE IF indexes = {} THEN None
                ELSE Some(CHOOSE p \in indexes : TRUE)
        page == ConstructPageResponse(req, MimeGuess(LastSegment(file[1])),
                                      st[file[1]].metadata)
        lookup == IF loaded = None THEN <<"load", "list">> ELSE <<"load">>
    IN  IF req.path = <<"/", "_", "w", "s">> \/ path = None THEN <<>>
        ELSE IF fault = "load" THEN <<"load", "failed">>
        ELSE IF loaded = None /\ fault = "list" THEN lookup \o <<"failed">>
        ELSE IF file = None \/ (loaded = None /\ ~EndsWith(path[1], "/")) THEN lookup
        ELSE IF req.method = "HEAD" \/ (req.method = "GET" /\ page.send_body)
        THEN lookup \o <<"contents">>
                    \o (IF fault = "contents" THEN <<"failed">> ELSE <<>>)
        ELSE lookup

\* The digests a stored file may carry: any bytes of the length of a digest.
WebDigests == {Hash(<<2>>), <<251, 240>>, <<3, 255>>}
\* What the store may hold at a path the server is asked for.
WebEntries ==
    {NoFile, StoredFile(<<1>>, None)}
    \cup {StoredFile(<<2, 1>>, Some(d)) : d \in WebDigests}
WebIndex == <<"/", "p", "/", "s", "/", "d", "/", "i", "n", "d", "e", "x", ".",
              "h", "t", "m", "l">>
WebPaths == {PathA, WebIndex}

Quoted(tag) == <<"\"">> \o tag \o <<"\"">>
\* The fields of the If-None-Match headers of the model: the quoted validator
\* of a digest in either alphabet, a weak one, one without quotes, and the
\* validator the server never gave.
HeaderFields ==
    {Quoted(EncodeConfig(d, UrlSafeAlphabet)) : d \in WebDigests}
    \cup {Quoted(EncodeConfig(d, StandardAlphabet)) : d \in WebDigests}
    \cup {<<"W", "/">> \o Quoted(EncodeConfig(Hash(<<2>>), UrlSafeAlphabet)),
          EncodeConfig(Hash(<<2>>), UrlSafeAlphabet),
          Quoted(EncodeConfig(<<7, 7>>, UrlSafeAlphabet)),
          Quoted(EncodeConfig(<<7>>, UrlSafeAlphabet)),
          Quoted(<<OtherChar>>)}
IfNoneMatchValues ==
    HeaderFields
    \cup {f \o <<",">> \o Quoted(EncodeConfig(d, UrlSafeAlphabet)) :
             f \in HeaderFields, d \in {Hash(<<2>>), <<251, 240>>}}
\* The request targets: the file, the file with an escaped name, its
\* directory with and without '/', paths with an escaped '/', a broken
\* escape, a path of no file, and the websocket endpoint.
RequestPaths ==
    {PathA,
     <<"/", "p", "/", "s", "/", "%", "6", "1">>,
     <<"/", "p", "/", "s", "/", "d">>,
     <<"/", "p", "/", "s", "/", "d", "/">>,
     <<"/", "p", "/", "s", "%", "2", "F", "a">>,
     <<"/", "p", "/", "s", "%", "2", "f", "a">>,
     <<"/", "p", "/", "s", "/", "%", "a">>,
     <<"/", "p", "/", "s", "/", "x">>,
     <<"/", "_", "w", "s">>}
Methods == {"GET", "HEAD", "OPTIONS", "POST"}

InitWeb ==
    /\ UploadIdle /\ SyncIdle /\ WebIdle /\ ApiIdle /\ LockIdle /\ BackupIdle /\ HandlerIdle
    /\ \E a \in WebEntries, index \in {NoFile, StoredFile(<<2>>, Some(Hash(<<2>>)))} :
          store = (PathA :> a) @@ (WebIndex :> index)

\* A request arrives.
WebRequest ==
    /\ web_pc = "idle"
    /\ \E method \in Methods, path \in RequestPaths,
          if_none_match \in {None} \cup {Some(v) : v \in IfNoneMatchValues} :
          request' = [method |-> method, path |-> path, if_none_match |-> if_none_match]
    /\ web_pc' = "received"
    /\ UNCHANGED <<store, uvars, svars, avars, lvars, bvars, pvars, response, store_calls>>

\* get_page_with_error_handling answers it.
WebGetPage ==
    /\ web_pc = "received"
    /\ \E fault \in WebFaults :
          /\ response' = GetPageWithErrorHandling(request, store, fault)
          /\ store_calls' = GetPageStoreCalls(request, store, fault)
    /\ web_pc' = "responded"
    /\ UNCHANGED <<store, uvars, svars, avars, lvars, bvars, pvars, request>>

\* The response is sent.
WebDone ==
    /\ web_pc = "responded"
    /\ web_pc' = "idle" /\ request' = NoRequest /\ response' = NoResponse
    /\ store_calls' = <<>>
    /\ UNCHANGED <<store, uvars, svars, avars, lvars, bvars, pvars>>

\* Between two requests write_file_data (api.rs:175-216) is called on the file.
WebWrite ==
    /\ web_pc = "idle"
    /\ \E data \in {<<>>, <<1>>}, start, finished \in BOOLEAN :
          LET written == WriteFileData(store[PathA], data, start, finished, "none")
          IN  /\ written.err = ""
              /\ Len(written.file.contents) <= MaxFileLen
              /\ store' = [store EXCEPT ![PathA] = written.file]
    /\ UNCHANGED <<uvars, svars, wvars, avars, lvars, bvars, pvars>>

NextWeb == WebRequest \/ WebGetPage \/ WebDone \/ WebWrite
SpecWeb == InitWeb /\ [][NextWeb]_vars

\* ------------------------------------ write_file_data and delete_file alone
\* The chunks write_file_data is called with.
ApiChunks == {<<>>, <<1>>, <<2, 1>>}

InitApi ==
    /\ UploadIdle /\ SyncIdle /\ WebIdle /\ ApiIdle /\ LockIdle /\ BackupIdle /\ HandlerIdle
    /\ \E before \in EntriesBefore : store = (PathA :> before)

\* api::write_file_data (api.rs:175-216) is called for the path.
ApiWriteFileData ==
    /\ \E data \in ApiChunks, start, finished \in BOOLEAN, fault \in WriteFaults :
          LET written == WriteFileData(store[PathA], data, start, finished, fault)
          IN  /\ Len(written.file.contents) <= MaxFileLen
              /\ store' = [store EXCEPT ![PathA] = written.file]
              /\ last_call' = [api |-> "write_file_data", before |-> store[PathA],
                               data |-> data, start |-> start, finished |-> finished,
                               fault |-> fault, err |-> written.err,
                               hash |-> written.hash]
    /\ UNCHANGED <<uvars, svars, wvars, lvars, bvars, pvars>>

\* api::delete_file (api.rs:132-139) is called for the path.
ApiDeleteFile ==
    /\ \E outcome \in DeleteFile(store[PathA]) :
          /\ store' = [store EXCEPT ![PathA] = outcome.file]
          /\ last_call' = [NoCall EXCEPT !.api = "delete_file", !.before = store[PathA],
                                         !.err = IF outcome.ok THEN "" ELSE "Store"]
    /\ UNCHANGED <<uvars, svars, wvars, lvars, bvars, pvars>>

NextApi == ApiWriteFileData \/ ApiDeleteFile
SpecApi == InitApi /\ [][NextApi]_vars

\* sync_directory on a store another client uses: while the run scans, the
\* other client has api::delete_file called for a file under the prefix, once.
OtherClientDeletes ==
    /\ sync_pc = "drain" /\ run = "first" /\ last_call = NoCall
    /\ store[PathA].exists
    /\ store' = [store EXCEPT ![PathA] = NoFile]
    /\ last_call' = [NoCall EXCEPT !.api = "delete_file", !.before = store[PathA]]
    /\ UNCHANGED <<uvars, svars, wvars, lvars, bvars, pvars>>
\* The runs on a directory whose d holds no file, and on what is no directory.
InitShared == Init /\ tree \in {TreeOf(a, None) : a \in OptionalBytes} \cup {<<>>}
NextShared == Next \/ OtherClientDeletes
SpecShared == InitShared /\ [][NextShared]_vars

\* ------------------------------------------- the handlers of the requests
\* Iterator::nth on the parts of a split.
Nth(parts, n) == IF n + 1 <= Len(parts) THEN Some(parts[n + 1]) ELSE None
\* Project::load_async(project, &database): the project of that slug.
ProjectLoad(collection, slug) ==
    IF slug \in DOMAIN collection THEN Some(collection[slug]) ELSE None
\* permissions::project_resource_name
ProjectResourceName(project_id) == <<"dossier", "project", project_id>>
CheckPermissionAllowAll(statements, resource) == TRUE
\* session.as_client.check_permission(resource, &DossierAction::SyncFiles)
CheckPermission(statements, resource) == resource \in statements

\* The paths of the requests: a file of project p, of project q and of no
\* project, a name without '/', two paths without leading '/', and "/".
NetPathP == <<"/", "p", "/", "a">>
NetPathQ == <<"/", "q", "/", "a">>
NetPaths ==
    {NetPathP, NetPathQ, <<"/", "x", "/", "a">>, <<"a">>, <<"p", "/", "a">>,
     <<"x", "/", "p", "/", "a">>, <<"/">>}
ApiRequests ==
    {[NoApiRequest EXCEPT !.api = a, !.path = p] :
        a \in {"list_files", "delete_file"}, p \in NetPaths}
    \cup {[api |-> "write_file_data", path |-> p, data |-> <<1>>, start |-> b,
            finished |-> f] : p \in NetPaths, b, f \in BOOLEAN}
\* What can fail before the handler is called: session.as_client.database
\* (api.rs:229) and Project::load_async (api.rs:232).
LookupFaults == {"none", "database", "load"}

\* The closures of api.rs:90, 126 and 160: list_files, delete_file or
\* write_file_data on the path of the request; the stores and results they
\* may leave.  A path without leading '/' is refused by the files
\* collection (ApiError::InvalidPath, api.rs:37-40).
Handler(req, st) ==
    IF req.api = "list_files"
    THEN {[store |-> st, response |-> r] : r \in {"", "Server"}}
    ELSE IF ~StartsWith(req.path, "/")
    THEN {[store |-> st, response |-> "InvalidPath"]}
    ELSE IF req.api = "delete_file"
    THEN {[store |-> [st EXCEPT ![req.path] = o.file],
           response |-> IF o.ok THEN "" ELSE "Server"] : o \in DeleteFile(st[req.path])}
    ELSE {[store |-> [st EXCEPT ![req.path] = w.file], response |-> w.err] :
             w \in {WriteFileData(st[req.path], req.data, req.start, req.finished, f) :
                       f \in WriteFaults}}

HandlerFrame == UNCHANGED <<uvars, svars, wvars, avars, lvars, bvars>>

\* A request of a session arrives at its Handler::handle (api.rs:80-94,
\* 116-130, 150-173).
ApiRequestArrives ==
    /\ handler_pc = "idle"
    /\ api_request' \in ApiRequests
    /\ store_before' = store
    /\ handler_pc' = "request"
    /\ UNCHANGED <<store, projects, granted, api_response, handler_calls>>
    /\ HandlerFrame

\* The request is answered without a call of the handler.
Refuse(error) ==
    /\ api_response' = error
    /\ UNCHANGED <<store, handler_calls>>

\* handle_sync_op_with_permissions (api.rs:218-242)
HandleSyncOpWithPermissions ==
    /\ handler_pc = "request"
    /\ \E fault \in LookupFaults :
          LET project == Nth(Split(api_request.path, "/"), 1)
              loaded == ProjectLoad(projects, project[1])
          IN  IF fault = "database" THEN Refuse("Server")
              ELSE IF project = None THEN Refuse("ProjectNotFound")
              ELSE IF fault = "load" THEN Refuse("Server")
              ELSE IF loaded = None THEN Refuse("ProjectNotFound")
              ELSE IF ~CheckPermission(granted, ProjectResourceName(loaded[1]))
              THEN Refuse("PermissionDenied")
              ELSE \E outcome \in Handler(api_request, store) :
                      /\ store' = outcome.store
                      /\ api_response' = outcome.response
                      /\ handler_calls' = handler_calls + 1
    /\ handler_pc' = "done"
    /\ UNCHANGED <<api_request, projects, granted, store_before>>
    /\ HandlerFrame

\* The projects p and q exist or not, the session is allowed SyncFiles on
\* either, on both or on none, and each has its file stored or not.
InitHandler ==
    /\ UploadIdle /\ SyncIdle /\ WebIdle /\ ApiIdle /\ LockIdle /\ BackupIdle
    /\ handler_pc = "idle" /\ api_request = NoApiRequest /\ api_response = ""
    /\ handler_calls = 0 /\ store_before = <<>>
    /\ \E slugs \in SUBSET {<<"p">>, <<"q">>} :
          projects = [slug \in slugs |-> IF slug = <<"p">> THEN 1 ELSE 2]
    /\ granted \in SUBSET {ProjectResourceName(1), ProjectResourceName(2)}
    /\ \E a, b \in {NoFile, StoredFile(<<2>>, Some(Hash(<<2>>)))} :
          store = [p \in NetPaths |->
                      IF p = NetPathP THEN a ELSE IF p = NetPathQ THEN b ELSE NoFile]
NextHandler == ApiRequestArrives \/ HandleSyncOpWithPermissions
SpecHandler == InitHandler /\ [][NextHandler]_vars

\* ------------------------------------------------- claims on the web server
\* The value of an If-None-Match header that lists digests as the server
\* writes them: fields of a quoted digest in base64 with the URL-safe
\* alphabet and no padding.
C10_Listed(value) ==
    LET fields == Split(value, ",")
        Digest(field) == {d \in WebDigests \cup {<<7, 7>>} :
                            field = Quoted(EncodeConfig(d, UrlSafeAlphabet))}
    IN  IF \E i \in DOMAIN fields : Digest(fields[i]) = {} THEN None
        ELSE Some(UNION {Digest(fields[i]) : i \in DOMAIN fields})
\* A GET of the file /p/s/a that the store answered without error.
C10_GetOfFile ==
    /\ web_pc = "responded" /\ request.method = "GET"
    /\ PercentDecode(request.path) = Some(PathA)
    /\ store[PathA].exists
    /\ response.status # 500

\* C10: a GET of a file whose If-None-Match lists the digest the file has is
\* answered 304 with an empty body; with a list of other digests, without the
\* header, or for a file without digest, it is answered 200 with the bytes of
\* the file.
C10_ConditionalGet ==
    C10_GetOfFile =>
        LET metadata == store[PathA].metadata
            digests == IF request.if_none_match = None THEN None
                      ELSE C10_Listed(request.if_none_match[1])
        IN  /\ (metadata # None /\ digests # None /\ metadata[1] \in digests[1] =>
                    response.status = 304 /\ response.body = <<>>)
            /\ (\/ request.if_none_match = None
                \/ metadata = None
                \/ (digests # None /\ metadata[1] \notin digests[1]) =>
                    response.status = 200 /\ response.body = store[PathA].contents)


\* C11: for every digest, the set parse_etags reads from the quoted form of
\* the ETag the server wrote for it contains the digest.
C11_SameEncoding ==
    \A d \in WebDigests :
        web_pc = "responded" /\ response.etag = Some(EncodeConfig(d, UrlSafeAlphabet)) =>
            d \in UnwrapOrDefault(ParseEtags(Quoted(response.etag[1])))

\* The request path has an escape that stands for '/'.
C12_EscapedSlash ==
    \E i \in 1..(Len(request.path) - 2) :
        /\ request.path[i] = "%" /\ request.path[i + 1] = "2"
        /\ request.path[i + 2] \in {"F", "f"}
\* C12: a request whose path has an escape of '/' is answered without a call
\* on the store, with an error and with none of the bytes of a file.
C12_EscapedSlashRejected ==
    web_pc = "responded" /\ C12_EscapedSlash =>
        /\ store_calls = <<>>
        /\ response.status = 500
        /\ response.body = <<>> /\ response.etag = None
\* A request for /p/s%2fa was answered while /p/s/a is a stored file.
C12_Witness ==
    /\ web_pc = "responded" /\ C12_EscapedSlash
    /\ request.path[7] = "f" /\ request.method = "GET"
    /\ store[PathA].exists /\ store[PathA].contents # <<>>

\* A request that get_page handles itself and with no error of the store or
\* of the path.
C13_Handled ==
    /\ web_pc = "responded"
    /\ request.path # <<"/", "_", "w", "s">>
    /\ PercentDecode(request.path) # None
    /\ response.status # 500
\* C13: an OPTIONS request is answered 200 with Allow: OPTIONS, GET, HEAD,
\* whatever its path.
C13_OptionsAnyPath ==
    C13_Handled /\ request.method = "OPTIONS" =>
        /\ response.status = 200
        /\ response.allow = Some("OPTIONS, GET, HEAD")

\* C14: a path that is no file but whose directory holds an index file is
\* answered, without '/' at its end, by a redirect to the path with '/' and an
\* empty body, and with '/' at its end by the index file; a path that is
\* neither is answered 404.
C14_DirectoryCanonicalization ==
    LET path == PercentDecode(request.path)[1]
        dir == <<"/", "p", "/", "s", "/", "d">>
        index == store[WebIndex]
    IN  C13_Handled /\ ~(path \in DOMAIN store /\ store[path].exists) =>
            IF index.exists /\ path = dir
            THEN /\ response.status = 307
                 /\ response.location = Some(dir \o <<"/">>)
                 /\ response.body = <<>> /\ response.etag = None
                 /\ response.content_length = None
            ELSE IF index.exists /\ path = dir \o <<"/">>
            THEN /\ request.method \in {"GET", "HEAD"} =>
                    /\ response.status \in {200, 304}
                    /\ response.etag = Some(EncodeConfig(index.metadata[1], UrlSafeAlphabet))
                    /\ response.content_type = Some("text/html")
                 /\ request.method = "GET" /\ response.status = 200 =>
                    response.body = index.contents
                 /\ request.method = "HEAD" =>
                    response.content_length = Some(Len(index.contents))
            ELSE response.status = 404 /\ response.body = <<>>
\* A request for the directory without '/' was answered by the redirect.
C14_Witness ==
    /\ web_pc = "responded" /\ request.method = "GET"
    /\ request.path = <<"/", "p", "/", "s", "/", "d">>
    /\ response.status = 307

\* What C15 says of an answered request. An escape that cannot be decoded
\* and a store call that failed are errors of the handling; a method other
\* than GET, HEAD and OPTIONS is one on every path (any_path) or only where
\* the path resolved to a file, the one place where the code looks at it.
C15_Mapped(any_path) ==
    web_pc = "responded" /\ request.path # <<"/", "_", "w", "s">> =>
        LET path == PercentDecode(request.path)
            failed == "failed" \in Range(store_calls)
            rejected == /\ request.method \notin {"GET", "HEAD", "OPTIONS"}
                        /\ path # None /\ ~failed
                        /\ any_path \/ response.status \notin {307, 404}
        IN  /\ response.status \in {200, 304, 307, 404, 500}
            /\ (path = None \/ failed \/ rejected =>
                    /\ response.status = 500
                    /\ response.text = "an error occurred"
                    /\ response.body = <<>> /\ response.etag = None
                    /\ response.content_length = None)
            /\ (request.method \notin {"GET", "HEAD", "OPTIONS"} =>
                    response.body = <<>> /\ response.etag = None)
C16_Valid(st) ==
    \A p \in DOMAIN st :
        st[p].exists /\ st[p].metadata # None =>
            st[p].metadata = Some(Hash(st[p].contents))
\* C16: no step of an upload, its writes of a Replace and the step at which
\* it is given up included, takes the store from a state in which every file
\* with a digest holds the bytes of that digest to a state in which one does not.
C16_StrongValidator == [][C16_Valid(store) => C16_Valid(store')]_vars

\* The store paths of the local files a scan reaches and names.
C17_LocalPaths == {StoreKey(Project, fh.remote_path) : fh \in C8_Records(tree)}
\* C17: after a run that returned Ok, the files stored under the remote
\* prefix are the local files (those the scan reaches through UTF-8 names),
\* a file stored without digest and without local counterpart being deleted.
C17_MirrorAfterSync ==
    sync_pc = "ok" =>
        ListRecursive(StoreKey(Project, SyncPrefix(RemotePathArg)), store) = C17_LocalPaths

\* ----------------------------------------------- further claims on upload_file
\* The digest the store returned for the finished write is the verification digest.
C18_DigestsAgree == file_hash = Some(VerificationHashFinish(verify_hash))
\* C18: upload_file starts a new attempt exactly when the finished write of the
\* attempt succeeded and the digest the store returned differs from the
\* verification digest, whatever the number of attempts before; a digest that
\* differs never ends the upload with an error; a failure to open or read the
\* local file ends it without a write, a failed write_file_data call ends it,
\* and nothing is written after the upload ended with an error.
C18_RetryPolicy ==
    [][/\ (upload_pc # "open" /\ upload_pc' = "open")
            <=> /\ upload_pc = "verify" /\ upload_pc' # "verify"
                /\ writes # <<>> /\ Last(writes).finished
                /\ ~C18_DigestsAgree
       /\ upload_pc = "verify" /\ upload_pc' = "done" => C18_DigestsAgree
       /\ upload_pc = "verify" => upload_pc' # "failed"
       /\ upload_pc # "failed" /\ upload_pc' = "failed" =>
            /\ upload_pc \in {"open", "read", "write"}
            /\ upload_pc \in {"open", "read"} => store' = store
       /\ upload_pc = "failed" => UNCHANGED <<store, upload_pc, writes>>
      ]_vars
\* An attempt that follows an attempt that did not verify wrote its finished
\* chunk and its digest differs again.
C18_Witness ==
    /\ retried /\ upload_pc = "verify"
    /\ writes # <<>> /\ Last(writes).finished
    /\ file_hash # None /\ ~C18_DigestsAgree

\* The flags of the writes ws of an attempt at position pc: start on the first
\* write and on no other, finished on no write but the last, on none while
\* the attempt still reads and on the last once it has read to the end; and
\* one write for all of a file of at most `limit` bytes.
C19_Flags(ws, pc, limit) ==
    /\ \A i \in DOMAIN ws :
          /\ ws[i].start = (i = 1)
          /\ ws[i].finished => i = Len(ws)
    /\ pc \in {"read", "write"} => \A i \in DOMAIN ws : ~ws[i].finished
    /\ pc \in {"verify", "done"} =>
          /\ ws # <<>> /\ Last(ws).finished
          /\ Len(Flatten(ws)) <= limit => Len(ws) = 1
\* A step after which the writes of the attempt carry these flags, and which
\* changes the digest of the target only by a write that carries finished.
C19_Step(limit) ==
    /\ C19_Flags(writes', upload_pc', limit)
    /\ store'[Target].metadata # store[Target].metadata =>
          /\ writes' # <<>> /\ Last(writes').finished
          /\ writes' = Append(writes, Last(writes'))
\* C19 as stated: one write of an attempt carries finished, the last, and one
\* carries start, the first; a file that fits in one chunk is written by a
\* single write with both; the digest is set only by the finished write.
C19_OneStartOneFinished == [][C19_Step(ScratchLen)]_vars
\* C19: one write of an attempt carries finished, the last, and one carries
\* start, the first; a file shorter than one chunk is written by a single
\* write with both (a file of exactly one chunk by two, the second empty);
\* the digest is set only by the finished write.
C19_OneStartOneFinishedShort == [][C19_Step(ScratchLen - 1)]_vars
\* An upload that ended Ok after a single write with both flags and with bytes.
C19_Witness ==
    /\ upload_pc = "done" /\ Len(writes) = 1
    /\ writes[1].start /\ writes[1].finished /\ writes[1].data # <<>>

\* ---------------------------------------------- claims on write_file_data
\* C20: a write_file_data call whose store calls all succeed, with start,
\* leaves at the path a file that holds exactly the data of the call: an
\* existing file emptied and kept (with the digest it had, unless the call
\* is also finished), a missing file created; without start it leaves an
\* existing file with the data appended to what it held; and without start
\* on a path without file it returns Deleted and leaves the path without file.
C20_StartFlag ==
    last_call.api = "write_file_data" =>
        LET before == last_call.before
            after == store[PathA]
        IN  /\ last_call.start /\ last_call.fault = "none" =>
                /\ last_call.err = ""
                /\ after.exists /\ after.contents = last_call.data
                /\ ~last_call.finished =>
                      after.metadata = (IF before.exists THEN before.metadata ELSE None)
            /\ ~last_call.start /\ before.exists /\ last_call.fault = "none" =>
                /\ last_call.err = ""
                /\ after.exists /\ after.contents = before.contents \o last_call.data
                /\ ~last_call.finished => after.metadata = before.metadata
            /\ ~last_call.start /\ ~before.exists /\ last_call.fault # "load" =>
                /\ last_call.err = "Deleted" /\ last_call.hash = None
                /\ after = before
\* A call with start and data on a file that held other bytes and a digest.
C20_Witness ==
    /\ last_call.api = "write_file_data" /\ last_call.fault = "none"
    /\ last_call.start /\ ~last_call.finished
    /\ last_call.before.exists /\ last_call.before.contents # <<>>
    /\ last_call.before.metadata # None
    /\ last_call.data # <<>> /\ last_call.data # last_call.before.contents

\* C21: the writes of an attempt, each made after the one before it returned,
\* hold at most a full scratch buffer each and exactly one when not finished,
\* and together with what is read and not yet written they are, in order,
\* the bytes read from the local file: as many as the reader has consumed,
\* and the bytes of the file itself when nobody edited it during the attempt.
C21_ChunkSequence ==
    /\ \A i \in DOMAIN writes :
          /\ Len(writes[i].data) <= ScratchLen
          /\ ~writes[i].finished => Len(writes[i].data) = ScratchLen
    /\ upload_pc # "open" => Len(Sent) + Len(scratch) = reader_pos
    /\ upload_pc \in {"read", "write", "verify", "done"} /\ ~torn =>
          /\ Sent \o scratch = SubSeq(location_bytes, 1, reader_pos)
          /\ upload_pc \in {"verify", "done"} => Sent = location_bytes
\* An upload of a file longer than one chunk ended Ok after two writes.
C21_Witness ==
    /\ upload_pc = "done" /\ ~torn /\ Len(writes) = 2
    /\ Len(writes[1].data) = ScratchLen /\ writes[2].data # <<>>
    /\ Sent = location_bytes

\* ------------------------------------------ further claims on sync_directory
\* A perform_sync_operations task was spawned, or an operation was applied, or
\* the store differs from what the run started from.
C22_ExecutorsAtWork ==
    \/ \E w \in Workers : executors[w].pc # "unspawned"
    \/ applied # EmptyBag
    \/ store_at_start # <<>> /\ store # store_at_start
\* C22: no perform_sync_operations task is spawned and the run changes nothing
\* in the store before every hash_directories task has returned, the hash
\* channel is empty, and the Delete operations (one for each file of the index
\* without scan record, and no other) were sent with all other operations counted.
C22_PoolsSequential ==
    C22_ExecutorsAtWork =>
        /\ ScanClosed /\ hash_channel = <<>>
        /\ existing_files = <<>>
        /\ {op \in BagToSet(planned) : op.kind = "Delete"} =
              {DeleteOp(file) : file \in DOMAIN remote_index \
                  {StoreKey(Project, fh.remote_path) : fh \in BagToSet(hashed)}}
        /\ total_operations = BagCardinality(planned)
\* An executor applies an operation of a plan that holds a Delete and an upload.
C22_Witness ==
    /\ sync_pc = "results"
    /\ \E w \in Workers : executors[w].pc = "perform"
    /\ DeleteOp(PathB) \in BagToSet(planned)
    /\ \E op \in BagToSet(planned) : op.kind # "Delete"

\* No hash_directories task was spawned.
C23_NoScanner == \A w \in Workers : hashers[w].pc = "unspawned"
\* C23: a run whose root is no directory, or whose listing failed, ended with
\* an error without a task spawned, an operation planned or applied; in any
\* other run the index is what list_files returned for the store as it was
\* before the tasks were spawned, existing_files is a part of it, and the
\* plan is the one of that index and the scan records, whatever another
\* client did to the store after the listing.
C23_IndexReadOnce ==
    /\ Location \notin DOMAIN tree /\ sync_pc # "start" => C23_NoScanner
    /\ C23_NoScanner /\ sync_pc # "start" =>
          /\ sync_pc = "err"
          /\ \A w \in Workers : executors[w].pc = "unspawned"
          /\ planned = EmptyBag /\ applied = EmptyBag /\ remote_index = <<>>
    /\ ~C23_NoScanner =>
          /\ Location \in DOMAIN tree
          /\ DOMAIN remote_index =
                {p \in DOMAIN store_at_start :
                    /\ IsPrefix(StoreKey(Project, SyncPrefix(RemotePathArg)), p)
                    /\ store_at_start[p].exists /\ store_at_start[p].metadata # None}
          /\ \A p \in DOMAIN remote_index :
                remote_index[p] = store_at_start[p].metadata[1]
          /\ \A key \in DOMAIN existing_files :
                key \in DOMAIN remote_index /\ existing_files[key] = remote_index[key]
    /\ PlanComplete => BagToSet(planned) = C2_ExpectedPlan
\* The plan holds a Replace for a file of the index that another client
\* deleted while the run scanned.
C23_Witness ==
    /\ PlanComplete /\ run = "first"
    /\ last_call.api = "delete_file" /\ last_call.err = ""
    /\ last_call.before.exists /\ last_call.before.metadata # None
    /\ \E op \in BagToSet(planned) : op.kind = "Replace" /\ OperationPath(op) = PathA

\* What a step does to the task w that applies an operation: nothing, or the
\* operation is applied to its end, its result, an error as well as a
\* success, is sent to a receiver that is alive, after which the task goes on
\* to receive, and no other task is touched.
C24_Step(w) ==
    LET op == executors[w].op IN
    \/ executors'[w] = executors[w]
    \/ /\ applied' = applied (+) SetToBag({op})
       /\ \A v \in Workers \ {w} : executors'[v] = executors[v]
       /\ result_receiver =>
             /\ Len(results') = Len(results) + 1
             /\ results' = Append(results, Last(results'))
             /\ Last(results').path = op.remote_path
             /\ executors'[w].pc = "recv"
C25_EveryErrorReceived ==
    sync_pc # "drain" => \A i \in DOMAIN hash_channel : hash_channel[i].kind # "err"
\* What a step does by which the scanning task w ends: it pops and pushes
\* nothing, it sends one message, an error, when the receiver is alive, and
\* none when it is not, and no other task is touched.
C25_Exit(w) ==
    /\ directories' = directories
    /\ \A v \in Workers \ {w} : hashers'[v] = hashers[v]
    /\ IF hash_receiver
       THEN /\ Len(hash_channel') = Len(hash_channel) + 1
            /\ hash_channel' = Append(hash_channel, Last(hash_channel'))
            /\ Last(hash_channel').kind = "err"
       ELSE hash_channel' = hash_channel
\* C25: a hash_directories task whose scan fails sends one error and ends
\* without popping again, and a task that ended stays ended, while the other
\* tasks go on; sync_directory returns the first error it receives, and ends
\* its loop over the hash channel otherwise only if no error was sent.
\* Errors sent after the first one stay in the channel, unreceived.
C25_OneErrorPerFailedScan ==
    [][/\ \A w \in Workers :
             /\ hashers[w].pc \in {"read_dir", "entries"} /\ hashers'[w].pc = "done"
                   => C25_Exit(w)
             /\ hashers[w].pc = "done" => hashers'[w].pc \in {"done", "unspawned"}
       /\ sync_pc = "drain" /\ hash_channel # <<>> /\ hash_channel' = Tail(hash_channel)
             => (sync_pc' = "err") = (Head(hash_channel).kind = "err")
       /\ sync_pc = "drain" /\ sync_pc' = "deletes" => scan_errors = {}
      ]_vars
\* A task ended on an error that is in the channel while another task scans.
C25_Witness ==
    /\ sync_pc = "drain"
    /\ \E i \in DOMAIN hash_channel : hash_channel[i].kind = "err"
    /\ \E w, v \in Workers :
          /\ hashers[w].pc = "done"
          /\ hashers[v].pc \in {"read_dir", "entries"}

\* Every task of the run has returned (or was never spawned).
C26_AllExited ==
    \A w \in Workers : /\ hashers[w].pc \in {"done", "unspawned"}
                       /\ executors[w].pc \in {"done", "unspawned"}
C26_AfterReturn ==
    sync_pc = "err" =>
        /\ hash_channel' = hash_channel /\ results' = results /\ hashed' = hashed
        /\ \A w \in Workers :
              /\ hashers[w].pc = "entries" /\ hashers'[w] # hashers[w] =>
                    \/ hashers'[w].pc = "done"
                    \/ hashers'[w].pc = "pop" /\ hashers[w].contents = {}
                    \/ /\ hashers'[w].pc = "entries"
                       /\ \E entry \in hashers[w].contents :
                             /\ hashers'[w].contents = hashers[w].contents \ {entry}
                             /\ entry.is_dir \/ ~entry.utf8
              /\ executors[w].pc = "perform" /\ executors'[w] # executors[w] =>
                    executors'[w].pc = "done"
C27_Counts ==
    /\ total_operations = BagCardinality(planned)
    /\ completed_operations <= total_operations
    /\ sync_pc = "ok" => completed_operations = total_operations
\* Within a run: total_operations does not change from the step that spawns
\* the executor tasks on, and completed_operations grows by one exactly when
\* an Ok result is received.
C27_Step ==
    run' = run =>
        /\ (\E w \in Workers : executors'[w].pc # "unspawned") =>
              total_operations' = total_operations
        /\ completed_operations' =
              IF results # <<>> /\ results' = Tail(results) /\ Head(results).kind = "ok"
              THEN completed_operations + 1 ELSE completed_operations
\* C27: total_operations is the number of operations enqueued and is fixed
\* before an executor task starts; completed_operations grows by exactly one
\* for each successful result received, never exceeds total_operations, and
\* equals it when the loop over the results ends without a failure.
C27_ProgressCounters == []C27_Counts /\ [][C27_Step]_vars
\* A run of two operations returned Ok with both counted.
C27_Witness ==
    /\ sync_pc = "ok" /\ total_operations = 2 /\ completed_operations = 2
    /\ \A w \in Workers : executors[w].pc = "done"

\* The tasks that are suspended in a call on the file system, and those that
\* wait at directories.lock().  (A send on the unbounded hash channel does
\* not suspend, and a scanning task makes no store call.)
C28_Suspended(w) == hashers[w].pc \in {"read_dir", "entries"}
C28_Waiting(w) == hashers[w].pc \in {"pop", "lock_push"}
\* A step of the task that holds the guard is its one pop or its one push and
\* drops the guard, and `directories` changes in such a step only.
C28_Step ==
    /\ \A w \in Workers :
          lock_holder = w /\ hashers'[w] # hashers[w] =>
              /\ lock_holder' = NoHolder
              /\ \/ hashers[w].pc = "popping" /\ Len(directories') >= Len(directories) - 1
                 \/ hashers[w].pc = "pushing" /\ Len(directories') = Len(directories) + 1
    /\ directories' # directories /\ sync_pc = "drain" =>
          lock_holder # NoHolder /\ lock_holder' = NoHolder
\* C28: a task holds the lock of the pending directories only for one pop or
\* one push: the holder is never suspended in a file system call, a send or
\* a store call, and never waits for the lock it holds.
C28_LockOnlyForPopOrPush ==
    /\ [](\A w \in Workers :
             lock_holder = w => ~C28_Suspended(w) /\ ~C28_Waiting(w)
                                /\ hashers[w].pc \in {"popping", "pushing"})
    /\ [][C28_Step]_vars
\* One task holds the guard for a push while the other waits for it at the
\* top of its loop.
C28_Witness ==
    \E w, v \in Workers :
        /\ lock_holder = w /\ hashers[w].pc = "pushing"
        /\ hashers[v].pc = "pop"

\* No upload that an executor task is about to make goes back to the top of
\* the loop of upload_file: with the local file as it was scanned, every
\* attempt whose calls return Ok verifies.
C29_NoRetry ==
    \A w \in Workers :
        executors[w].pc = "perform" /\ executors[w].op.kind # "Delete" =>
            UploadRetries(store[OperationPath(executors[w].op)],
                          ReadLocal(tree, executors[w].op.path),
                          Some(executors[w].op.blake3)) = {}
\* sync_directory has returned, every task it spawned has ended, and both
\* result channels are closed: no sender and no receiver is left.
C29_Returned ==
    /\ sync_pc \in {"ok", "err"}
    /\ \A w \in Workers : /\ hashers[w].pc \in {"done", "unspawned"}
                           /\ executors[w].pc \in {"done", "unspawned"}
    /\ ~hash_receiver /\ ~result_receiver
\* C29: on a finite tree whose files do not change, with calls that all
\* return and no other writer of the store, every scanning task and every
\* executor task ends, both channels close and sync_directory returns.
C29_SyncTerminates == []C29_NoRetry /\ <>[]C29_Returned
\* A run that uploaded a file and deleted another returned Ok with every
\* task ended.
C29_Witness ==
    /\ C29_Returned /\ sync_pc = "ok" /\ completed_operations = 2
    /\ \E op \in BagToSet(applied) : op.kind = "Create"
    /\ \A w \in Workers : hashers[w].pc = "done" /\ executors[w].pc = "done"

\* backup has returned.
C30_Returned == backup_pc \in {"ok", "err"}
\* C30: backup always returns; in particular its loop over the files is
\* never left waiting at a full channel from which no task will receive.
C30_BackupReturns ==
    /\ backup_pc = "send" /\ files # <<>> /\ Len(backup_channel) = NumberOfTasks =>
          \E t \in Tasks : tasks[t] \in {"recv", "file"}
    /\ backup_pc = "join" /\ awaited < NumberOfTasks =>
          \/ tasks[awaited + 1] \in {"ok", "err"}
          \/ \E t \in Tasks : tasks[t] \in {"recv", "file"}
\* The same as a property of the fair behaviours.
C30_EventuallyReturns == <>C30_Returned

\* The second '/'-separated part of the path of the request names a project
\* that exists; and the session is allowed SyncFiles on its resource.
C31_NamesProject ==
    LET parts == Split(api_request.path, "/")
    IN  Len(parts) >= 2 /\ parts[2] \in DOMAIN projects
C31_Permitted ==
    /\ C31_NamesProject
    /\ <<"dossier", "project", projects[Split(api_request.path, "/")[2]]>> \in granted
\* The handler was called only for a permitted request, and a request that
\* did not reach it left the store as it was and was answered by an error.
C31_Guarded ==
    /\ handler_calls <= 1
    /\ handler_calls = 1 => C31_Permitted
    /\ handler_calls = 0 => store = store_before /\ api_response # ""
    /\ ~C31_Permitted => handler_calls = 0
\* C31 as stated: a list, write or delete request reaches the store only if
\* the second part of its path names an existing project on which the
\* session is allowed SyncFiles; otherwise the handler is not called, the
\* store is unchanged, and a missing project yields ProjectNotFound.
C31_MissingProjectNotFound ==
    handler_pc = "done" =>
        /\ C31_Guarded
        /\ ~C31_NamesProject => api_response = "ProjectNotFound"
\* C31: the same, where a missing project yields ProjectNotFound unless the
\* database could not be opened or the project not be looked up, which
\* yields the error of that call.
C31_OnlyPermittedReachTheStore ==
    handler_pc = "done" =>
        /\ C31_Guarded
        /\ ~C31_NamesProject => api_response \in {"ProjectNotFound", "Server"}
        /\ C31_NamesProject /\ ~C31_Permitted =>
              api_response \in {"PermissionDenied", "Server"}
\* A write to the stored file of a project that exists, by a session that
\* is allowed SyncFiles on the other project only, was refused.
C31_Witness ==
    /\ handler_pc = "done" /\ api_request.api = "write_file_data"
    /\ api_request.path = NetPathQ /\ api_request.start
    /\ C31_NamesProject /\ ~C31_Permitted /\ granted = {<<"dossier", "project", 1>>}
    /\ api_response = "PermissionDenied" /\ store[NetPathQ].exists

====
